---- MODULE Spec2Model ----
(***************************************************************************)
(* Verification model of the one-observability-demo DevOps agent.          *)
(*                                                                         *)
(* Part 1: the event intake and priority dispatcher of                     *)
(* src/devops-agent/src/event_processor.py (EventProcessor, Event).        *)
(* Part 2: one incident: EventProcessor._handle_event and the workflow     *)
(* engine of src/devops-agent/src/workflow_engine.py (execute_workflow,    *)
(* the step handlers, the root-cause and recommendation rules).            *)
(* Part 3: the metrics query gateway of src/prometheus-mcp-server/src      *)
(* (QueryTranslator, PrometheusClient, InsightGenerator and the handler    *)
(* of POST /api/v1/query).                                                 *)
(*                                                                         *)
(* In Part 1 strings are sequences of one-character strings so that        *)
(* str.lower() and the substring test `kw in name` are computed, not       *)
(* assumed.  In Part 2 Python values are tagged records and str(dict) is   *)
(* rendered character by character, so `key in str(f)` is computed too.    *)
(***************************************************************************)
EXTENDS Integers, Sequences, FiniteSets, TLC

VARIABLES
    \* ---- dispatcher (EventProcessor) ----
    event_queue,      \* EventProcessor.event_queue: the heap list of (rank, event)
    running,          \* EventProcessor.running
    processing_task,  \* state of the _process_events task
    active_tasks,     \* local list active_tasks of _process_events (event ids)
    submitted,        \* number of process_event calls so far (event ids 1..submitted)
    handler,          \* per event id: its _handle_event task and the event it holds
    stop_pc,          \* position of the stop() coroutine
    put_result,       \* how the latest process_event ended: "ok" or "TypeError" (logged)
    \* ---- pure selection functions (Event / _determine_workflow) ----
    sel_detail,       \* the detail mapping of the payload under test
    sel_built,        \* Events built from payloads carrying sel_detail
    sel_workflow,     \* result of _determine_workflow, or "unset"
    \* ---- one incident (_handle_event / WorkflowEngine) ----
    self_workflows,   \* WorkflowEngine.workflows: workflow name -> list of step ids
    invoked,          \* the adapter operations the incident has awaited so far
    h_pc,             \* position of the _handle_event coroutine
    h_event,          \* the event _handle_event was called with
    h_log,            \* the send_notification calls made so far: the message, the
                      \* incident id passed, and how the call ended
    wf_pc,            \* position of the execute_workflow coroutine
    wf_name,          \* its argument workflow_name
    wf_step,          \* number of loop iterations over workflow['steps'] begun
    context,          \* its local dict context
    wf_result,        \* the value it returned
    \* ---- the metrics query gateway ----
    self_templates,   \* QueryTranslator.templates
    g_pc,             \* position of the call or request in progress
    request,          \* the QueryRequest: query and time_range
    translation_result, \* what QueryTranslator.translate returned
    window,           \* start_time and end_time of PrometheusClient.query_range
    query_result,     \* what PrometheusClient.query_range returned
    insights,         \* what InsightGenerator.generate returned
    response,         \* the QueryResponse of the handler
    g_log,            \* the calls completed so far: what was asked and what came back
    \* ---- the agent process (DevOpsAgent, main) ----
    agent_running,    \* DevOpsAgent.running
    event_processor,  \* whether DevOpsAgent.event_processor is set
    main_pc,          \* position of the main() coroutine
    stop_calls,       \* per caller of DevOpsAgent.stop(): the position of that call
    shutdown_notifications, \* number of shutdown notifications the notifier has sent
    session,          \* PrometheusMCPClient.session: "None", "open" or "closed"
    sessions_created, \* number of aiohttp.ClientSession() constructed
    mcp_answer,       \* the latest PrometheusMCPClient.query: what session.post came to
                      \* and what query returned
    \* ---- concurrent incidents (handler tasks running execute_workflow) ----
    task_frames,      \* per handler task: the locals of its execute_workflow call
    objects           \* the context dicts created so far, by the order of creation

dispVars == <<event_queue, running, processing_task, active_tasks, submitted,
              handler, stop_pc, put_result>>
selVars == <<sel_detail, sel_built, sel_workflow>>
wfVars == <<self_workflows, invoked, h_pc, h_event, h_log, wf_pc, wf_name, wf_step, context,
            wf_result>>
gwVars == <<self_templates, g_pc, request, translation_result, window, query_result,
            insights, response, g_log>>
agVars == <<agent_running, event_processor, main_pc, stop_calls, shutdown_notifications,
            session, sessions_created, mcp_answer>>
ccVars == <<task_frames, objects>>
vars == <<dispVars, selVars, wfVars, gwVars, agVars, ccVars>>

(***************************************************************************)
(* Bounds of the model.                                                    *)
(***************************************************************************)
MaxEvents == 3
MaxWords == 2
MaxBuilds == 2
MaxPodEvents == 2
MaxTraces == 2
MaxQueryWords == 2
MaxSamples == 4
MaxIncidents == 2

(***************************************************************************)
(* Strings.                                                                *)
(***************************************************************************)
UpperChars ==
    <<"A","B","C","D","E","F","G","H","I","J","K","L","M",
      "N","O","P","Q","R","S","T","U","V","W","X","Y","Z">>
LowerChars ==
    <<"a","b","c","d","e","f","g","h","i","j","k","l","m",
      "n","o","p","q","r","s","t","u","v","w","x","y","z">>

\* The lower-case form of every upper-case letter.
lower_table ==
    [c \in {UpperChars[i] : i \in 1..Len(UpperChars)} |->
        LowerChars[CHOOSE i \in 1..Len(UpperChars) : UpperChars[i] = c]]

LowerChar(c) == IF c \in DOMAIN lower_table THEN lower_table[c] ELSE c

\* str.lower()
Lower(s) == [i \in 1..Len(s) |-> LowerChar(s[i])]

\* `kw in s` for str
Contains(s, kw) ==
    \E i \in 0..(Len(s) - Len(kw)) : \A j \in 1..Len(kw) : s[i + j] = kw[j]

\* Keywords used by the source, spelled as character sequences.
kw_critical == <<"c","r","i","t","i","c","a","l">>
kw_oom == <<"o","o","m">>
kw_node == <<"n","o","d","e">>
kw_down == <<"d","o","w","n">>
kw_memory == <<"m","e","m","o","r","y">>
kw_cpu == <<"c","p","u">>
kw_throttl == <<"t","h","r","o","t","t","l">>
kw_latency == <<"l","a","t","e","n","c","y">>
kw_response == <<"r","e","s","p","o","n","s","e">>
kw_pressure == <<"p","r","e","s","s","u","r","e">>
kw_restart == <<"r","e","s","t","a","r","t">>
kw_crash == <<"c","r","a","s","h">>

(***************************************************************************)
(* EventPriority and Event.                                                *)
(***************************************************************************)
EventPriority == [CRITICAL |-> 1, HIGH |-> 2, MEDIUM |-> 3, LOW |-> 4]

PriorityNames == {"CRITICAL", "HIGH", "MEDIUM", "LOW"}

\* Mutant: the keyword test is made on the name as given (no .lower()).
_determine_priority_no_lower(detail) ==
    IF detail.state = "ALARM"
    THEN IF \E kw \in {kw_critical, kw_oom, kw_node, kw_down} :
                Contains(detail.alarmName, kw)
         THEN "CRITICAL"
         ELSE "HIGH"
    ELSE "MEDIUM"

\* Event._determine_priority.  detail.state is detail['state']['value'] (''
\* when absent), detail.alarmName is detail['alarmName'] ('' when absent).
_determine_priority(detail) ==
    IF detail.state = "ALARM"
    THEN IF \E kw \in {kw_critical, kw_oom, kw_node, kw_down} :
                Contains(Lower(detail.alarmName), kw)
         THEN "CRITICAL"
         ELSE "HIGH"
    ELSE "MEDIUM"

\* Event.__init__
Event(event_data) ==
    [event_id |-> event_data.id,
     detail   |-> event_data.detail,
     priority |-> _determine_priority(event_data.detail)]

\* Mutant: the memory workflow names a step, check_oom_kills, that has no
\* entry in the handler table.
workflows_unhandled ==
    [memory_leak_investigation |->
        <<"identify_pod", "collect_memory_metrics", "check_oom_kills",
          "analyze_memory_trend", "review_recent_changes",
          "recommend_remediation">>,
     high_cpu_investigation |->
        <<"identify_pod", "collect_cpu_metrics", "check_cpu_throttling",
          "analyze_request_patterns", "review_resource_limits",
          "recommend_remediation">>,
     high_latency_investigation |->
        <<"identify_service", "collect_latency_metrics", "analyze_traces",
          "check_dependencies", "correlate_with_resources",
          "recommend_remediation">>,
     node_pressure_investigation |->
        <<"identify_node", "collect_node_metrics", "list_pods_on_node",
          "check_resource_usage", "analyze_evictions",
          "recommend_remediation">>,
     pod_crash_investigation |->
        <<"identify_pod", "collect_pod_events", "analyze_logs",
          "check_restart_count", "review_resource_limits",
          "recommend_remediation">>,
     generic_investigation |->
        <<"identify_resource", "collect_metrics", "analyze_patterns",
          "recommend_actions">>]

(***************************************************************************)
(* WorkflowEngine._load_workflows: the registry.                           *)
(***************************************************************************)
workflows ==
    [memory_leak_investigation |->
        <<"identify_pod", "collect_memory_metrics", "check_oom_events",
          "analyze_memory_trend", "review_recent_changes",
          "recommend_remediation">>,
     high_cpu_investigation |->
        <<"identify_pod", "collect_cpu_metrics", "check_cpu_throttling",
          "analyze_request_patterns", "review_resource_limits",
          "recommend_remediation">>,
     high_latency_investigation |->
        <<"identify_service", "collect_latency_metrics", "analyze_traces",
          "check_dependencies", "correlate_with_resources",
          "recommend_remediation">>,
     node_pressure_investigation |->
        <<"identify_node", "collect_node_metrics", "list_pods_on_node",
          "check_resource_usage", "analyze_evictions",
          "recommend_remediation">>,
     pod_crash_investigation |->
        <<"identify_pod", "collect_pod_events", "analyze_logs",
          "check_restart_count", "review_resource_limits",
          "recommend_remediation">>,
     generic_investigation |->
        <<"identify_resource", "collect_metrics", "analyze_patterns",
          "recommend_actions">>]

\* Mutant: the cpu|throttl test is made before the memory|oom test.
_determine_workflow_cpu_first(detail) ==
    LET alarm_name == Lower(detail.alarmName) IN
    IF Contains(alarm_name, kw_cpu) \/ Contains(alarm_name, kw_throttl)
    THEN "high_cpu_investigation"
    ELSE IF Contains(alarm_name, kw_memory) \/ Contains(alarm_name, kw_oom)
    THEN "memory_leak_investigation"
    ELSE IF Contains(alarm_name, kw_latency) \/ Contains(alarm_name, kw_response)
    THEN "high_latency_investigation"
    ELSE IF Contains(alarm_name, kw_node) \/ Contains(alarm_name, kw_pressure)
    THEN "node_pressure_investigation"
    ELSE IF Contains(alarm_name, kw_restart) \/ Contains(alarm_name, kw_crash)
    THEN "pod_crash_investigation"
    ELSE "generic_investigation"

\* EventProcessor._determine_workflow
_determine_workflow(detail) ==
    LET alarm_name == Lower(detail.alarmName) IN
    IF Contains(alarm_name, kw_memory) \/ Contains(alarm_name, kw_oom)
    THEN "memory_leak_investigation"
    ELSE IF Contains(alarm_name, kw_cpu) \/ Contains(alarm_name, kw_throttl)
    THEN "high_cpu_investigation"
    ELSE IF Contains(alarm_name, kw_latency) \/ Contains(alarm_name, kw_response)
    THEN "high_latency_investigation"
    ELSE IF Contains(alarm_name, kw_node) \/ Contains(alarm_name, kw_pressure)
    THEN "node_pressure_investigation"
    ELSE IF Contains(alarm_name, kw_restart) \/ Contains(alarm_name, kw_crash)
    THEN "pod_crash_investigation"
    ELSE "generic_investigation"

(***************************************************************************)
(* Alarm names.  Words is a vocabulary of keywords (some in upper case),   *)
(* fragments of keywords and neutral pieces; the names under test are the  *)
(* concatenations of at most MaxWords words, so keywords also arise across *)
(* word boundaries ("no" + "de") and several groups can match one name.    *)
(***************************************************************************)
Words ==
    {<<"c","r","i","t","i","c","a","l">>,
     <<"o","o","m">>,
     <<"O","O","M">>,
     <<"n","o","d","e">>,
     <<"d","o","w","n">>,
     <<"D","o","w","n">>,
     <<"m","e","m","o","r","y">>,
     <<"c","p","u">>,
     <<"t","h","r","o","t","t","l">>,
     <<"l","a","t","e","n","c","y">>,
     <<"r","e","s","p","o","n","s","e">>,
     <<"p","r","e","s","s","u","r","e">>,
     <<"r","e","s","t","a","r","t">>,
     <<"c","r","a","s","h">>,
     <<"-">>,
     <<"n","o">>,
     <<"d","e">>}

RECURSIVE NamesUpTo(_)
NamesUpTo(n) ==
    IF n = 0 THEN {<<>>}
    ELSE LET shorter == NamesUpTo(n - 1) IN
         shorter \cup {s \o w : s \in shorter, w \in Words}

AlarmNames == NamesUpTo(MaxWords)

\* detail['state']['value']; "" stands for an absent key.
StateValues == {"ALARM", "OK", "alarm", ""}

Details == [alarmName : AlarmNames, state : StateValues]

\* Payloads submitted to the dispatcher: the alarms of scenarios S1 and S2
\* of the specification and one alarm that is not in ALARM state.
name_pod_oom_critical == <<"p","o","d","-","o","o","m","-","c","r","i","t","i","c","a","l">>
name_svc_latency_high == <<"s","v","c","-","l","a","t","e","n","c","y","-","h","i","g","h">>
name_node_pressure == <<"n","o","d","e","-","p","r","e","s","s","u","r","e">>

DispatchDetails ==
    {[alarmName |-> name_pod_oom_critical, state |-> "ALARM"],
     [alarmName |-> name_svc_latency_high, state |-> "ALARM"],
     [alarmName |-> name_node_pressure, state |-> "OK"]}

\* Alarms handled as incidents: one for each workflow of the registry.
name_pod_cpu_throttling ==
    <<"p","o","d","-","c","p","u","-","t","h","r","o","t","t","l","i","n","g">>
name_pod_restart_loop == <<"p","o","d","-","r","e","s","t","a","r","t","-","l","o","o","p">>
name_disk_full == <<"d","i","s","k","-","f","u","l","l">>

IncidentDetails ==
    {[alarmName |-> name, state |-> "ALARM"] :
        name \in {name_pod_oom_critical, name_pod_cpu_throttling, name_svc_latency_high,
                  name_node_pressure, name_pod_restart_loop, name_disk_full}}

(***************************************************************************)
(* asyncio.PriorityQueue as the source uses it: a list kept as a binary    *)
(* heap by heapq (CPython's C implementation, which swaps in place) of     *)
(* tuples (event.priority.value, event).  Python compares the tuples       *)
(* element by element; when the ranks are equal it compares the Event      *)
(* objects, and class Event defines no ordering, so the comparison raises  *)
(* TypeError.  An item is [rank, event].  Positions are 1-based here.      *)
(***************************************************************************)
\* (rank_a, event_a) < (rank_b, event_b)
TupleLt(a, b) ==
    IF a.rank # b.rank THEN (IF a.rank < b.rank THEN "True" ELSE "False")
    ELSE IF a.event.event_id = b.event.event_id THEN "False"
    ELSE "TypeError"

Swap(heap, i, j) == [heap EXCEPT ![i] = heap[j], ![j] = heap[i]]

\* heapq siftdown(heap, startpos, pos): move heap[pos] up while it is
\* smaller than its parent.  A failed comparison leaves the list as it is at
\* that moment.
RECURSIVE _siftdown(_, _, _)
_siftdown(heap, startpos, pos) ==
    IF pos > startpos
    THEN LET parentpos == pos \div 2
             cmp == TupleLt(heap[pos], heap[parentpos])
         IN  IF cmp = "TypeError" THEN [heap |-> heap, err |-> TRUE]
             ELSE IF cmp = "False" THEN [heap |-> heap, err |-> FALSE]
             ELSE _siftdown(Swap(heap, pos, parentpos), startpos, parentpos)
    ELSE [heap |-> heap, err |-> FALSE]

\* heapq siftup(heap, pos): move the item at pos down to a leaf along the
\* smaller children (comparing the two siblings), then sift it up again.
RECURSIVE _siftup_from(_, _, _)
_siftup_from(heap, startpos, pos) ==
    LET endpos == Len(heap) IN
    IF 2 * pos <= endpos
    THEN LET left == 2 * pos
             cmp == IF left + 1 <= endpos
                    THEN TupleLt(heap[left], heap[left + 1])
                    ELSE "True"
             childpos == IF cmp = "True" THEN left ELSE left + 1
         IN  IF cmp = "TypeError" THEN [heap |-> heap, err |-> TRUE]
             ELSE _siftup_from(Swap(heap, pos, childpos), startpos, childpos)
    ELSE _siftdown(heap, startpos, pos)

_siftup(heap, pos) == _siftup_from(heap, pos, pos)

\* heapq.heappush: the item is appended first, then sifted; when a
\* comparison raises, the item stays in the list.
heappush(heap, item) ==
    LET appended == Append(heap, item) IN
    _siftdown(appended, 1, Len(appended))

\* Mutant: the last item of the list is taken.
heappop_last(heap) ==
    LET n == Len(heap) IN
    [heap |-> SubSeq(heap, 1, n - 1), err |-> FALSE, item |-> heap[n]]

\* heapq.heappop: the last element replaces the root and is sifted; when a
\* comparison raises, the exception replaces the return value: the former
\* root is in neither the list nor the result.
heappop(heap) ==
    LET n == Len(heap)
        lastelt == heap[n]
        rest == SubSeq(heap, 1, n - 1)
    IN  IF n = 1 THEN [heap |-> <<>>, err |-> FALSE, item |-> lastelt]
        ELSE LET r == _siftup([rest EXCEPT ![1] = lastelt], 1) IN
             [heap |-> r.heap, err |-> r.err, item |-> heap[1]]

(***************************************************************************)
(* Python values of the workflow engine.  A value is [t, v] with t its     *)
(* type; a dict is the sequence of its <<key, value>> items in insertion   *)
(* order.  Texts that are rendered or searched are TLA+ strings.           *)
(***************************************************************************)
None == [t |-> "none", v |-> "None"]
Bool(b) == [t |-> "bool", v |-> b]
Num(n) == [t |-> "int", v |-> n]
Str(s) == [t |-> "str", v |-> s]
List(l) == [t |-> "list", v |-> l]
Dict(items) == [t |-> "dict", v |-> items]

\* An exception raised by an adapter call instead of a return value.
Raise == [t |-> "raise", v |-> "Exception"]

\* `needle in text` for two str
In(needle, text) ==
    \E i \in 0..(Len(text) - Len(needle)) : SubSeq(text, i + 1, i + Len(needle)) = needle

\* str.lower(), computed by halves
RECURSIVE LowerStr(_)
LowerStr(s) ==
    IF Len(s) = 0 THEN ""
    ELSE IF Len(s) = 1 THEN LowerChar(s)
    ELSE LowerStr(SubSeq(s, 1, Len(s) \div 2)) \o LowerStr(SubSeq(s, Len(s) \div 2 + 1, Len(s)))

\* repr() of a value; str() of a dict or a list is its repr.
RECURSIVE repr(_)
RECURSIVE repr_list(_, _)
RECURSIVE repr_dict(_, _)
repr(x) ==
    CASE x.t = "none" -> "None"
      [] x.t = "bool" -> (IF x.v THEN "True" ELSE "False")
      [] x.t = "int" -> ToString(x.v)
      [] x.t = "float" -> x.v
      [] x.t = "str" -> "'" \o x.v \o "'"
      [] x.t = "list" -> "[" \o repr_list(x.v, 1) \o "]"
      [] x.t = "dict" -> "{" \o repr_dict(x.v, 1) \o "}"

repr_list(l, i) ==
    IF i > Len(l) THEN ""
    ELSE (IF i > 1 THEN ", " ELSE "") \o repr(l[i]) \o repr_list(l, i + 1)

repr_dict(items, i) ==
    IF i > Len(items) THEN ""
    ELSE (IF i > 1 THEN ", " ELSE "") \o "'" \o items[i][1] \o "': " \o repr(items[i][2])
         \o repr_dict(items, i + 1)

str(x) == IF x.t = "str" THEN x.v ELSE repr(x)

\* d.get(key, default)
Get(d, key, default) ==
    IF \E i \in 1..Len(d.v) : d.v[i][1] = key
    THEN d.v[CHOOSE i \in 1..Len(d.v) : d.v[i][1] = key][2]
    ELSE default

\* `key in d`
HasKey(d, key) == \E i \in 1..Len(d.v) : d.v[i][1] = key

\* Truth value of a Python value (`if x`, `not x`)
Truthy(x) ==
    CASE x.t = "none" -> FALSE
      [] x.t = "bool" -> x.v
      [] x.t = "int" -> x.v # 0
      [] x.t = "str" -> x.v # ""
      [] x.t = "list" -> x.v # <<>>
      [] x.t = "dict" -> x.v # <<>>

\* datetime.utcnow().isoformat()
utcnow_isoformat == "2024-01-01T00:00:00.000000"

\* The local dict context of execute_workflow: the keys the engine reads
\* back.  A scratch key that has not been set reads as None (context.get).
NoContext ==
    [incident_id |-> "", workflow_name |-> "", findings |-> <<>>,
     root_cause |-> None, recommendations |-> List(<<>>),
     pod_name |-> None, namespace |-> None,
     service_name |-> None, node_name |-> None,
     metrics |-> [memory |-> Dict(<<>>), cpu |-> Dict(<<>>)],
     pods_on_node |-> List(<<>>)]

(***************************************************************************)
(* The adapters as the step handlers see them.  Each set holds the values  *)
(* a call can return, and Raise where the adapter lets an exception        *)
(* through (the Kubernetes adapter catches ApiException only, the X-Ray    *)
(* and CloudWatch adapters ClientError only).                              *)
(***************************************************************************)
RECURSIVE ListsUpTo(_, _)
ListsUpTo(elements, n) ==
    IF n = 0 THEN {<<>>}
    ELSE LET shorter == ListsUpTo(elements, n - 1) IN
         shorter \cup {Append(l, e) : l \in shorter, e \in elements}

\* PrometheusMCPClient._get_fallback_metrics
_get_fallback_metrics ==
    Dict(<< <<"success", Bool(FALSE)>>, <<"current", Num(0)>>, <<"max", Num(0)>>,
            <<"min", Num(0)>>, <<"average", Num(0)>>, <<"trend", Str("unknown")>>,
            <<"anomalies", List(<<>>)>>, <<"promql", Str("")>>,
            <<"insights", List(<<Str("MCP server unavailable, using fallback")>>)>>,
            <<"values", List(<<>>)>> >>)

\* Mutant: a body without data counts as an empty result.
_parse_query_result_lenient(result) ==
    LET found == IF result.t = "dict" THEN Get(result, "data", Dict(<<>>)) ELSE Dict(<<>>)
        data == IF found.t = "dict" THEN found ELSE Dict(<<>>)
    IN  Dict(<< <<"success", Bool(TRUE)>>,
                <<"current", Get(data, "current_value", Num(0))>>,
                <<"max", Get(data, "max_value", Num(0))>>,
                <<"min", Get(data, "min_value", Num(0))>>,
                <<"average", Get(data, "average_value", Num(0))>>,
                <<"trend", Get(data, "trend", Str("unknown"))>>,
                <<"anomalies", Get(data, "anomalies", List(<<>>))>>,
                <<"promql", Get(result, "promql_query", Str(""))>>,
                <<"insights", Get(result, "insights", List(<<>>))>>,
                <<"values", Get(data, "values", List(<<>>))>> >>)

\* PrometheusMCPClient._parse_query_result: the success flag of the body
\* is not read; result.get and data.get raise AttributeError on a body or a
\* data field that is no dict (JSON null is None), and the except clause
\* returns the fallback block.
_parse_query_result(result) ==
    IF result.t # "dict" THEN _get_fallback_metrics
    ELSE LET data == Get(result, "data", Dict(<<>>)) IN
         IF data.t # "dict" THEN _get_fallback_metrics
         ELSE Dict(<< <<"success", Bool(TRUE)>>,
                      <<"current", Get(data, "current_value", Num(0))>>,
                      <<"max", Get(data, "max_value", Num(0))>>,
                      <<"min", Get(data, "min_value", Num(0))>>,
                      <<"average", Get(data, "average_value", Num(0))>>,
                      <<"trend", Get(data, "trend", Str("unknown"))>>,
                      <<"anomalies", Get(data, "anomalies", List(<<>>))>>,
                      <<"promql", Get(result, "promql_query", Str(""))>>,
                      <<"insights", Get(result, "insights", List(<<>>))>>,
                      <<"values", Get(data, "values", List(<<>>))>> >>)

\* PrometheusMCPClient.query for the outcome of session.post: status 0
\* stands for an exception (gateway unreachable, timeout), a body of Raise
\* for a response.json() that raises.  It never raises.
mcp_query(outcome) ==
    IF outcome.status = 0 THEN _get_fallback_metrics
    ELSE IF outcome.status = 200
    THEN (IF outcome.body.t = "raise" THEN _get_fallback_metrics
          ELSE _parse_query_result(outcome.body))
    ELSE _get_fallback_metrics

\* The JSON body of a QueryResponse that reports a failure: the fields
\* left at their default are sent as null.
FailureBody(error) ==
    Dict(<< <<"success", Bool(FALSE)>>, <<"promql_query", None>>, <<"data", None>>,
            <<"insights", None>>, <<"error", Str(error)>> >>)

\* The JSON body of a QueryResponse for one series of two samples.
MetricsBody(first, last, average, trend) ==
    Dict(<< <<"success", Bool(TRUE)>>,
            <<"promql_query", Str("container_memory_working_set_bytes{pod=~'foo.*'}")>>,
            <<"data",
              Dict(<< <<"current_value", [t |-> "float", v |-> last]>>,
                      <<"max_value", [t |-> "float", v |-> last]>>,
                      <<"min_value", [t |-> "float", v |-> first]>>,
                      <<"average_value", [t |-> "float", v |-> average]>>,
                      <<"trend", Str(trend)>>,
                      <<"values",
                        List(<<Dict(<< <<"metric", Dict(<< <<"pod", Str("foo-1")>> >>)>>,
                                       <<"values", List(<<[t |-> "float", v |-> first],
                                                          [t |-> "float", v |-> last]>>)>>,
                                       <<"timestamps", List(<<Num(1704063600),
                                                              Num(1704067200)>>)>> >>)>>)>>,
                      <<"series_count", Num(1)>> >>)>>,
            <<"insights", List(<<Str("Current value: " \o last)>>)>>,
            <<"error", None>> >>)

\* What session.post can come to: an exception, a status other than 200,
\* and status 200 with a body that is no JSON, that reports a failure, or
\* that carries metrics.
McpOutcomes ==
    {[status |-> 0, body |-> None],
     [status |-> 503, body |-> None],
     [status |-> 200, body |-> Raise],
     [status |-> 200, body |-> FailureBody("Query range failed: 500")],
     [status |-> 200, body |-> MetricsBody("200.0", "450.0", "325.0", "increasing")],
     [status |-> 200, body |-> MetricsBody("200.0", "200.0", "200.0", "stable")]}

\* What PrometheusMCPClient.query can return to a step.
prometheus_mcp_query == {mcp_query(outcome) : outcome \in McpOutcomes}

\* An event of KubernetesIntegration.get_pod_events; event.reason may be None.
PodEvent(reason) ==
    Dict(<< <<"type", Str("Warning")>>, <<"reason", reason>>, <<"count", Num(1)>> >>)

PodEvents == {PodEvent(Str("OOMKilled")), PodEvent(Str("BackOff")), PodEvent(None)}

get_pod_events == {Raise} \cup {List(l) : l \in ListsUpTo(PodEvents, MaxPodEvents)}

get_pod_logs ==
    {Raise, List(<<>>),
     List(<<Str("INFO started"), Str("ERROR out of memory"), Str("java.lang.Exception: boom")>>)}

get_restart_count == {Raise, Num(0), Num(5), Num(6)}

get_resource_limits ==
    {Raise, Dict(<<>>),
     Dict(<< <<"cpu_limit", Num(500)>>, <<"memory_limit", Num(128)>> >>),
     Dict(<< <<"cpu_limit", Num(500)>>, <<"memory_limit", Num(256)>> >>)}

get_recent_changes ==
    {Raise, List(<<>>),
     List(<<Dict(<< <<"name", Str("petadoptionshistory")>>, <<"type", Str("deployment")>> >>)>>)}

get_node_metrics ==
    {Raise, Dict(<<>>),
     Dict(<< <<"name", Str("ip-10-0-1-100.ec2.internal")>>, <<"status", Str("True")>> >>)}

PodOnNode(name) ==
    Dict(<< <<"name", Str(name)>>, <<"phase", Str("Running")>>, <<"cpu", Num(0)>>,
            <<"memory", Num(0)>> >>)

get_pods_on_node ==
    {Raise, List(<<>>), List(<<PodOnNode("petsite"), PodOnNode("petsearch")>>)}

get_eviction_events ==
    {Raise, List(<<>>),
     List(<<Dict(<< <<"pod", Str("petsite")>>, <<"reason", Str("Evicted")>> >>)>>)}

get_service_metrics ==
    {Raise, Dict(<<>>), Dict(<< <<"current", Num(120)>>, <<"p99", Num(900)>>, <<"p50", Num(120)>> >>)}

\* A trace of XRayIntegration.get_slow_traces; its bottleneck is None when
\* the trace has no segments.
SlowTrace(bottleneck) ==
    Dict(<< <<"trace_id", Str("1-5f84c7a1")>>, <<"duration", Num(2)>>, <<"bottleneck", bottleneck>> >>)

SlowTraces == {SlowTrace(None), SlowTrace(Str("dynamodb"))}

get_slow_traces == {Raise} \cup {List(l) : l \in ListsUpTo(SlowTraces, MaxTraces)}

get_service_map ==
    {Raise, Dict(<<>>),
     Dict(<< <<"service", Str("payforadoption-go")>>, <<"dependencies", List(<<>>)>> >>)}

\* The call a step handler awaits, as the set of its possible outcomes;
\* a step that calls no adapter gets None.
AdapterCall(step) ==
    CASE step \in {"collect_memory_metrics", "collect_cpu_metrics"} -> prometheus_mcp_query
      [] step \in {"check_oom_events", "collect_pod_events"} -> get_pod_events
      [] step = "collect_latency_metrics" -> get_service_metrics
      [] step = "collect_node_metrics" -> get_node_metrics
      [] step = "analyze_traces" -> get_slow_traces
      [] step = "review_recent_changes" -> get_recent_changes
      [] step = "review_resource_limits" -> get_resource_limits
      [] step = "check_dependencies" -> get_service_map
      [] step = "list_pods_on_node" -> get_pods_on_node
      [] step = "analyze_evictions" -> get_eviction_events
      [] step = "analyze_logs" -> get_pod_logs
      [] step = "check_restart_count" -> get_restart_count
      [] OTHER -> {None}

\* The operations of KubernetesIntegration that change the cluster.
MutatingOperations == {"kubernetes.restart_pod", "kubernetes.scale_deployment"}

\* Mutant: the finalizer step carries out its first recommendation.
adapter_operations_remediate(step, ctx) ==
    IF step = "recommend_remediation" THEN {"kubernetes.restart_pod"} ELSE {}

\* The adapter operations the handler of a step awaits (none for a step
\* without a handler); collect_memory_metrics returns before its query when
\* no pod name was identified.
adapter_operations(step, ctx) ==
    CASE step = "collect_memory_metrics" ->
             IF Truthy(ctx.pod_name) THEN {"prometheus_mcp.query"} ELSE {}
      [] step = "collect_cpu_metrics" -> {"prometheus_mcp.query"}
      [] step = "collect_latency_metrics" -> {"cloudwatch.get_service_metrics"}
      [] step = "collect_node_metrics" -> {"kubernetes.get_node_metrics"}
      [] step \in {"check_oom_events", "collect_pod_events"} -> {"kubernetes.get_pod_events"}
      [] step = "analyze_traces" -> {"xray.get_slow_traces"}
      [] step = "review_recent_changes" -> {"kubernetes.get_recent_changes"}
      [] step = "review_resource_limits" -> {"kubernetes.get_resource_limits"}
      [] step = "check_dependencies" -> {"xray.get_service_map"}
      [] step = "list_pods_on_node" -> {"kubernetes.get_pods_on_node"}
      [] step = "analyze_evictions" -> {"kubernetes.get_eviction_events"}
      [] step = "analyze_logs" -> {"kubernetes.get_pod_logs"}
      [] step = "check_restart_count" -> {"kubernetes.get_restart_count"}
      [] OTHER -> {}

(***************************************************************************)
(* WorkflowEngine: the rules of the reasoner and the step handlers.  A     *)
(* step handler maps the context and the outcome of its adapter call to    *)
(* [raised, result, context]: whether it raised, the dict it returned and  *)
(* the context as it left it.                                              *)
(***************************************************************************)
Returns(result, ctx) == [raised |-> FALSE, result |-> result, context |-> ctx]
Raises(ctx) == [raised |-> TRUE, result |-> None, context |-> ctx]

Strs(texts) == List([i \in 1..Len(texts) |-> Str(texts[i])])

\* The if / elif chain of _generate_recommendations on the workflow name
recommendations_for(workflow_name) ==
    CASE workflow_name = "memory_leak_investigation" ->
            <<"Restart pod to clear memory",
              "Increase memory limit to 512Mi",
              "Review application code for memory leaks",
              "Enable memory profiling">>
      [] workflow_name = "high_cpu_investigation" ->
            <<"Increase CPU limit to 500m",
              "Enable HPA for automatic scaling",
              "Review code for CPU-intensive operations">>
      [] workflow_name = "high_latency_investigation" ->
            <<"Scale service horizontally",
              "Optimize slow queries",
              "Enable connection pooling",
              "Review timeout configurations">>
      [] workflow_name = "node_pressure_investigation" ->
            <<"Cordon node to prevent new scheduling",
              "Drain pods to other nodes",
              "Add new nodes to cluster">>
      [] workflow_name = "pod_crash_investigation" ->
            <<"Review application logs for errors",
              "Check resource limits",
              "Roll back to previous version if recent deployment">>
      [] OTHER ->
            <<"Review metrics and logs",
              "Consult runbook documentation">>

\* Mutant: without a root cause nothing is recommended.
_generate_recommendations_by_cause(ctx, root_cause) ==
    IF root_cause.t = "none" THEN <<>> ELSE recommendations_for(ctx.workflow_name)

\* WorkflowEngine._generate_recommendations: root_cause is not read.
_generate_recommendations(ctx, root_cause) == recommendations_for(ctx.workflow_name)

\* any(key in str(f) for f in findings)
AnyFindingMentions(key, findings) ==
    \E i \in 1..Len(findings) : In(key, str(findings[i]))

\* WorkflowEngine._determine_root_cause
_determine_root_cause(ctx) ==
    LET findings == ctx.findings IN
    CASE ctx.workflow_name = "memory_leak_investigation" ->
            IF AnyFindingMentions("oom_kill_detected", findings)
            THEN "Memory leak causing OOMKill events"
            ELSE IF AnyFindingMentions("memory_leak_likely", findings)
            THEN "Increasing memory usage pattern detected"
            ELSE "Memory pressure observed"
      [] ctx.workflow_name = "high_cpu_investigation" ->
            IF AnyFindingMentions("throttling_detected", findings)
            THEN "CPU throttling due to insufficient limits"
            ELSE "High CPU utilization"
      [] ctx.workflow_name = "high_latency_investigation" ->
            IF AnyFindingMentions("resource_constrained", findings)
            THEN "Latency caused by resource constraints"
            ELSE IF AnyFindingMentions("bottleneck", findings)
            THEN "Bottleneck in downstream service"
            ELSE "Elevated response times"
      [] ctx.workflow_name = "node_pressure_investigation" -> "Node under resource pressure"
      [] ctx.workflow_name = "pod_crash_investigation" -> "Pod experiencing frequent crashes"
      [] OTHER -> "Investigation completed"

_identify_pod(ctx, resp) ==
    Returns(Dict(<< <<"success", Bool(TRUE)>>,
                    <<"pod_name", Str("petadoptionshistory-py")>>,
                    <<"namespace", Str("default")>> >>),
            [ctx EXCEPT !.pod_name = Str("petadoptionshistory-py"),
                        !.namespace = Str("default")])

_identify_service(ctx, resp) ==
    Returns(Dict(<< <<"success", Bool(TRUE)>>, <<"service_name", Str("payforadoption-go")>> >>),
            [ctx EXCEPT !.service_name = Str("payforadoption-go")])

_identify_node(ctx, resp) ==
    Returns(Dict(<< <<"success", Bool(TRUE)>>,
                    <<"node_name", Str("ip-10-0-1-100.ec2.internal")>> >>),
            [ctx EXCEPT !.node_name = Str("ip-10-0-1-100.ec2.internal")])

_identify_resource(ctx, resp) ==
    Returns(Dict(<< <<"success", Bool(TRUE)>>, <<"resource", Str("unknown")>> >>), ctx)

\* Mutant: a block that reports a failure makes the step raise.
_collect_memory_metrics_strict(ctx, metrics) ==
    IF ~Truthy(ctx.pod_name)
    THEN Returns(Dict(<< <<"success", Bool(FALSE)>>,
                         <<"error", Str("Pod name not identified")>> >>), ctx)
    ELSE IF ~Truthy(Get(metrics, "success", None))
    THEN Raises([ctx EXCEPT !.metrics.memory = metrics])
    ELSE Returns(Dict(<< <<"success", Bool(TRUE)>>,
                         <<"memory_usage", Get(metrics, "current", Str("N/A"))>>,
                         <<"trend", Get(metrics, "trend", Str("unknown"))>> >>),
                 [ctx EXCEPT !.metrics.memory = metrics])

_collect_memory_metrics(ctx, metrics) ==
    IF ~Truthy(ctx.pod_name)
    THEN Returns(Dict(<< <<"success", Bool(FALSE)>>,
                         <<"error", Str("Pod name not identified")>> >>), ctx)
    ELSE Returns(Dict(<< <<"success", Bool(TRUE)>>,
                         <<"memory_usage", Get(metrics, "current", Str("N/A"))>>,
                         <<"trend", Get(metrics, "trend", Str("unknown"))>> >>),
                 [ctx EXCEPT !.metrics.memory = metrics])

_collect_cpu_metrics(ctx, metrics) ==
    Returns(Dict(<< <<"success", Bool(TRUE)>>,
                    <<"cpu_usage", Get(metrics, "current", Str("N/A"))>>,
                    <<"throttling", Get(metrics, "throttling", Bool(FALSE))>> >>),
            [ctx EXCEPT !.metrics.cpu = metrics])

_collect_latency_metrics(ctx, metrics) ==
    IF metrics.t = "raise" THEN Raises(ctx)
    ELSE Returns(Dict(<< <<"success", Bool(TRUE)>>,
                         <<"p50", Get(metrics, "p50", Str("N/A"))>>,
                         <<"p99", Get(metrics, "p99", Str("N/A"))>> >>), ctx)

_collect_node_metrics(ctx, metrics) ==
    IF metrics.t = "raise" THEN Raises(ctx)
    ELSE Returns(Dict(<< <<"success", Bool(TRUE)>>, <<"metrics", metrics>> >>), ctx)

_collect_generic_metrics(ctx, resp) ==
    Returns(Dict(<< <<"success", Bool(TRUE)>>, <<"metrics", Dict(<<>>)>> >>), ctx)

\* `'OOMKill' in e.get('reason', '')` raises TypeError for a reason of None.
_check_oom_events(ctx, events) ==
    IF events.t = "raise" THEN Raises(ctx)
    ELSE IF \E i \in 1..Len(events.v) : Get(events.v[i], "reason", Str("")).t # "str"
    THEN Raises(ctx)
    ELSE LET IsOom(e) == In("OOMKill", Get(e, "reason", Str("")).v)
             oom_events == SelectSeq(events.v, IsOom)
         IN  Returns(Dict(<< <<"success", Bool(TRUE)>>,
                             <<"oom_kill_detected", Bool(Len(oom_events) > 0)>>,
                             <<"oom_count", Num(Len(oom_events))>> >>), ctx)

\* `x > 0.1` for an int x
GreaterThanTenth(x) == x.v * 10 > 1

_check_cpu_throttling(ctx, resp) ==
    LET metrics == ctx.metrics.cpu
        throttling == GreaterThanTenth(Get(metrics, "throttling_ratio", Num(0)))
    IN  Returns(Dict(<< <<"success", Bool(TRUE)>>,
                        <<"throttling_detected", Bool(throttling)>>,
                        <<"throttling_ratio", Get(metrics, "throttling_ratio", Num(0))>> >>), ctx)

_analyze_traces(ctx, traces) ==
    IF traces.t = "raise" THEN Raises(ctx)
    ELSE Returns(Dict(<< <<"success", Bool(TRUE)>>,
                         <<"slow_traces_count", Num(Len(traces.v))>>,
                         <<"bottleneck", IF Truthy(traces)
                                         THEN Get(traces.v[1], "bottleneck", None)
                                         ELSE None>> >>), ctx)

_analyze_memory_trend(ctx, resp) ==
    LET trend == Get(ctx.metrics.memory, "trend", Str("unknown"))
        increasing == trend.t = "str" /\ trend.v = "increasing"
    IN  Returns(Dict(<< <<"success", Bool(TRUE)>>,
                        <<"trend", trend>>,
                        <<"memory_leak_likely", Bool(increasing)>> >>), ctx)

\* 0.01 is the only float of the engine; it is kept as its repr.
_analyze_request_patterns(ctx, resp) ==
    Returns(Dict(<< <<"success", Bool(TRUE)>>,
                    <<"traffic_spike", Bool(FALSE)>>,
                    <<"error_rate", [t |-> "float", v |-> "0.01"]>> >>), ctx)

_review_recent_changes(ctx, recent_changes) ==
    IF recent_changes.t = "raise" THEN Raises(ctx)
    ELSE Returns(Dict(<< <<"success", Bool(TRUE)>>,
                         <<"recent_changes", recent_changes>>,
                         <<"recent_deployment", Bool(Len(recent_changes.v) > 0)>> >>), ctx)

\* WorkflowEngine._check_limits_appropriate
_check_limits_appropriate(limits) == Get(limits, "memory_limit", Num(0)).v > 128

_review_resource_limits(ctx, limits) ==
    IF limits.t = "raise" THEN Raises(ctx)
    ELSE Returns(Dict(<< <<"success", Bool(TRUE)>>,
                         <<"limits", limits>>,
                         <<"limits_appropriate", Bool(_check_limits_appropriate(limits))>> >>),
                 ctx)

_check_dependencies(ctx, dependencies) ==
    IF dependencies.t = "raise" THEN Raises(ctx)
    ELSE Returns(Dict(<< <<"success", Bool(TRUE)>>,
                         <<"dependencies", dependencies>>,
                         <<"dependency_issues", List(<<>>)>> >>), ctx)

_correlate_with_resources(ctx, resp) ==
    Returns(Dict(<< <<"success", Bool(TRUE)>>,
                    <<"correlation", Str("high")>>,
                    <<"resource_constrained", Bool(TRUE)>> >>), ctx)

_list_pods_on_node(ctx, pods) ==
    IF pods.t = "raise" THEN Raises(ctx)
    ELSE Returns(Dict(<< <<"success", Bool(TRUE)>>,
                         <<"pod_count", Num(Len(pods.v))>>,
                         <<"pods", pods>> >>),
                 [ctx EXCEPT !.pods_on_node = pods])

\* sum(p.get(key, 0) for p in pods)
RECURSIVE SumOf(_, _)
SumOf(pods, key) ==
    IF pods = <<>> THEN 0
    ELSE Get(Head(pods), key, Num(0)).v + SumOf(Tail(pods), key)

\* max(pods, key=lambda p: p.get('memory', 0)): the first pod of largest memory
MaxByMemory(pods) ==
    LET memory(i) == Get(pods[i], "memory", Num(0)).v
        first == CHOOSE i \in 1..Len(pods) :
                    /\ \A j \in 1..Len(pods) : memory(j) <= memory(i)
                    /\ \A j \in 1..(i - 1) : memory(j) < memory(i)
    IN  pods[first]

_check_resource_usage(ctx, resp) ==
    LET pods == ctx.pods_on_node IN
    Returns(Dict(<< <<"success", Bool(TRUE)>>,
                    <<"total_cpu", Num(SumOf(pods.v, "cpu"))>>,
                    <<"total_memory", Num(SumOf(pods.v, "memory"))>>,
                    <<"resource_hog", IF Truthy(pods) THEN MaxByMemory(pods.v) ELSE None>> >>),
            ctx)

_analyze_evictions(ctx, evictions) ==
    IF evictions.t = "raise" THEN Raises(ctx)
    ELSE Returns(Dict(<< <<"success", Bool(TRUE)>>,
                         <<"eviction_count", Num(Len(evictions.v))>>,
                         <<"evictions", evictions>> >>), ctx)

_collect_pod_events(ctx, events) ==
    IF events.t = "raise" THEN Raises(ctx)
    ELSE Returns(Dict(<< <<"success", Bool(TRUE)>>,
                         <<"event_count", Num(Len(events.v))>>,
                         <<"events", events>> >>), ctx)

_analyze_logs(ctx, logs) ==
    IF logs.t = "raise" THEN Raises(ctx)
    ELSE LET IsError(line) == \/ In("error", LowerStr(line.v))
                              \/ In("exception", LowerStr(line.v))
             errors == SelectSeq(logs.v, IsError)
         IN  Returns(Dict(<< <<"success", Bool(TRUE)>>,
                             <<"error_count", Num(Len(errors))>>,
                             <<"errors", List(SubSeq(errors, 1, IF Len(errors) < 5
                                                                THEN Len(errors) ELSE 5))>> >>),
                     ctx)

_check_restart_count(ctx, restart_count) ==
    IF restart_count.t = "raise" THEN Raises(ctx)
    ELSE Returns(Dict(<< <<"success", Bool(TRUE)>>,
                         <<"restart_count", restart_count>>,
                         <<"frequent_restarts", Bool(restart_count.v > 5)>> >>), ctx)

_analyze_patterns(ctx, resp) ==
    Returns(Dict(<< <<"success", Bool(TRUE)>>, <<"patterns", List(<<>>)>> >>), ctx)

_recommend_remediation(ctx, resp) ==
    Returns(Dict(<< <<"success", Bool(TRUE)>>,
                    <<"recommendations", Strs(_generate_recommendations(ctx, None))>> >>), ctx)

_recommend_actions(ctx, resp) ==
    Returns(Dict(<< <<"success", Bool(TRUE)>>,
                    <<"actions", Strs(<<"Review metrics", "Check logs", "Consult runbook">>)>> >>),
            ctx)

\* The keys of the dict step_handlers of _execute_step.
StepIds ==
    {"identify_pod", "identify_service", "identify_node", "identify_resource",
     "collect_memory_metrics", "collect_cpu_metrics", "collect_latency_metrics",
     "collect_node_metrics", "collect_metrics", "check_oom_events", "check_cpu_throttling",
     "analyze_traces", "analyze_memory_trend", "analyze_request_patterns",
     "review_recent_changes", "review_resource_limits", "check_dependencies",
     "correlate_with_resources", "list_pods_on_node", "check_resource_usage",
     "analyze_evictions", "collect_pod_events", "analyze_logs", "check_restart_count",
     "analyze_patterns", "recommend_remediation", "recommend_actions"}

\* step_handlers[step](context) for a step of StepIds
step_handlers(step, ctx, resp) ==
    CASE step = "identify_pod" -> _identify_pod(ctx, resp)
      [] step = "identify_service" -> _identify_service(ctx, resp)
      [] step = "identify_node" -> _identify_node(ctx, resp)
      [] step = "identify_resource" -> _identify_resource(ctx, resp)
      [] step = "collect_memory_metrics" -> _collect_memory_metrics(ctx, resp)
      [] step = "collect_cpu_metrics" -> _collect_cpu_metrics(ctx, resp)
      [] step = "collect_latency_metrics" -> _collect_latency_metrics(ctx, resp)
      [] step = "collect_node_metrics" -> _collect_node_metrics(ctx, resp)
      [] step = "collect_metrics" -> _collect_generic_metrics(ctx, resp)
      [] step = "check_oom_events" -> _check_oom_events(ctx, resp)
      [] step = "check_cpu_throttling" -> _check_cpu_throttling(ctx, resp)
      [] step = "analyze_traces" -> _analyze_traces(ctx, resp)
      [] step = "analyze_memory_trend" -> _analyze_memory_trend(ctx, resp)
      [] step = "analyze_request_patterns" -> _analyze_request_patterns(ctx, resp)
      [] step = "review_recent_changes" -> _review_recent_changes(ctx, resp)
      [] step = "review_resource_limits" -> _review_resource_limits(ctx, resp)
      [] step = "check_dependencies" -> _check_dependencies(ctx, resp)
      [] step = "correlate_with_resources" -> _correlate_with_resources(ctx, resp)
      [] step = "list_pods_on_node" -> _list_pods_on_node(ctx, resp)
      [] step = "check_resource_usage" -> _check_resource_usage(ctx, resp)
      [] step = "analyze_evictions" -> _analyze_evictions(ctx, resp)
      [] step = "collect_pod_events" -> _collect_pod_events(ctx, resp)
      [] step = "analyze_logs" -> _analyze_logs(ctx, resp)
      [] step = "check_restart_count" -> _check_restart_count(ctx, resp)
      [] step = "analyze_patterns" -> _analyze_patterns(ctx, resp)
      [] step = "recommend_remediation" -> _recommend_remediation(ctx, resp)
      [] step = "recommend_actions" -> _recommend_actions(ctx, resp)

\* Mutant: the handler is looked up with step_handlers[step], which raises
\* KeyError for a step that has no handler.
_execute_step_keyerror(step, ctx, resp) ==
    IF step \in StepIds THEN step_handlers(step, ctx, resp) ELSE Raises(ctx)

\* WorkflowEngine._execute_step: handler = step_handlers.get(step); await
\* the handler, or return a failure result when there is none.
_execute_step(step, ctx, resp) ==
    IF step \in StepIds THEN step_handlers(step, ctx, resp)
    ELSE Returns(Dict(<< <<"success", Bool(FALSE)>>,
                         <<"error", Str("No handler for step: " \o step)>> >>), ctx)

(***************************************************************************)
(* Part 3, the metrics query gateway.  QueryTranslator                     *)
(* (src/prometheus-mcp-server/src/query_translator.py).                    *)
(*                                                                         *)
(* Every pattern of the template table has the shape                       *)
(* r'<phrase>.*<entity>\s+(\S+)'; a pattern is kept as [phrase, entity,    *)
(* groups] with groups the number of capture groups, 1 in the table; a     *)
(* pattern with groups = 0 is r'<phrase>.*<entity>\s+\S+'.  re_search      *)
(* computes re.search for this shape character by character: the leftmost  *)
(* start, `.*` greedy and not crossing a newline, `\s+` and `\S+` greedy.  *)
(***************************************************************************)
Char(s, i) == SubSeq(s, i, i)

\* s.startswith(w, i - 1)
StartsAt(s, i, w) == i + Len(w) - 1 <= Len(s) /\ SubSeq(s, i, i + Len(w) - 1) = w

\* The characters \s matches, among those of the queries under test.
WhitespaceChars == {" ", "\t", "\n"}

\* The end of the run of whitespace that starts at i: the first position
\* from i on that holds no whitespace, Len(s) + 1 when the run reaches the
\* end of s.
SpaceEnd(s, i) ==
    CHOOSE k \in i..(Len(s) + 1) :
        /\ \A m \in i..(k - 1) : Char(s, m) \in WhitespaceChars
        /\ k <= Len(s) => Char(s, k) \notin WhitespaceChars

\* The end of the run of non-whitespace that starts at i.
TokenEnd(s, i) ==
    CHOOSE k \in i..(Len(s) + 1) :
        /\ \A m \in i..(k - 1) : Char(s, m) \notin WhitespaceChars
        /\ k <= Len(s) => Char(s, k) \in WhitespaceChars

\* <entity>\s+\S+ matches at position j of s.
EntityAt(s, j, entity) ==
    /\ StartsAt(s, j, entity)
    /\ LET a == j + Len(entity)
           b == SpaceEnd(s, a)
       IN  b > a /\ b <= Len(s)

\* The positions at which the entity part can match when the phrase
\* matched at i: `.*` lies between them and matches no newline.
EntityPositions(s, i, pattern) ==
    {j \in (i + Len(pattern.phrase))..Len(s) :
        /\ EntityAt(s, j, pattern.entity)
        /\ \A m \in (i + Len(pattern.phrase))..(j - 1) : Char(s, m) # "\n"}

Max(S) == CHOOSE x \in S : \A y \in S : y <= x
Min(S) == CHOOSE x \in S : \A y \in S : x <= y

NoMatch == [matched |-> FALSE, lastindex |-> None, group1 |-> ""]

\* Mutant: `.*` is lazy, so the first entity after the phrase is taken.
re_search_lazy(pattern, s) ==
    LET starts == {i \in 1..Len(s) :
                      StartsAt(s, i, pattern.phrase) /\ EntityPositions(s, i, pattern) # {}}
    IN  IF starts = {} THEN NoMatch
        ELSE LET i == Min(starts)
                 j == Min(EntityPositions(s, i, pattern))
                 b == SpaceEnd(s, j + Len(pattern.entity))
             IN  [matched |-> TRUE,
                  lastindex |-> IF pattern.groups >= 1 THEN Num(1) ELSE None,
                  group1 |-> IF pattern.groups >= 1 THEN SubSeq(s, b, TokenEnd(s, b) - 1)
                             ELSE ""]

\* re.search(pattern, s): None, or the match with its lastindex (None for a
\* pattern without a group) and group(1).
re_search(pattern, s) ==
    LET starts == {i \in 1..Len(s) :
                      StartsAt(s, i, pattern.phrase) /\ EntityPositions(s, i, pattern) # {}}
    IN  IF starts = {} THEN NoMatch
        ELSE LET i == Min(starts)
                 j == Max(EntityPositions(s, i, pattern))
                 b == SpaceEnd(s, j + Len(pattern.entity))
             IN  [matched |-> TRUE,
                  lastindex |-> IF pattern.groups >= 1 THEN Num(1) ELSE None,
                  group1 |-> IF pattern.groups >= 1 THEN SubSeq(s, b, TokenEnd(s, b) - 1)
                             ELSE ""]

Pattern(phrase, entity) == [phrase |-> phrase, entity |-> entity, groups |-> 1]

QueryTemplate(pattern, promql, description, category) ==
    [pattern |-> pattern, promql |-> promql, description |-> description,
     category |-> category]

\* QueryTranslator._load_templates
_load_templates ==
    << QueryTemplate(Pattern("memory usage", "pod"),
                     "container_memory_usage_bytes{{pod=\"{pod_name}\"}}",
                     "Memory usage for a specific pod", "memory"),
       QueryTemplate(Pattern("cpu usage", "pod"),
                     "rate(container_cpu_usage_seconds_total{{pod=\"{pod_name}\"}}[5m])",
                     "CPU usage for a specific pod", "cpu"),
       QueryTemplate(Pattern("memory usage", "namespace"),
                     "sum(container_memory_usage_bytes{{namespace=\"{namespace}\"}}) by (pod)",
                     "Memory usage by pod in namespace", "memory"),
       QueryTemplate(Pattern("cpu usage", "namespace"),
                     "sum(rate(container_cpu_usage_seconds_total{{namespace=\"{namespace}\"}}[5m])) by (pod)",
                     "CPU usage by pod in namespace", "cpu"),
       QueryTemplate(Pattern("request rate", "service"),
                     "rate(http_requests_total{{service=\"{service_name}\"}}[5m])",
                     "Request rate for a service", "requests"),
       QueryTemplate(Pattern("error rate", "service"),
                     "rate(http_requests_total{{service=\"{service_name}\",status=~\"5..\"}}[5m])",
                     "Error rate for a service", "errors"),
       QueryTemplate(Pattern("latency", "service"),
                     "histogram_quantile(0.99, rate(http_request_duration_seconds_bucket{{service=\"{service_name}\"}}[5m]))",
                     "P99 latency for a service", "latency"),
       QueryTemplate(Pattern("resource usage", "node"),
                     "node_memory_MemAvailable_bytes{{node=\"{node_name}\"}} / node_memory_MemTotal_bytes{{node=\"{node_name}\"}}",
                     "Memory availability on a node", "node"),
       QueryTemplate(Pattern("pod count", "namespace"),
                     "count(kube_pod_info{{namespace=\"{namespace}\"}}) by (namespace)",
                     "Count of pods in namespace", "pods"),
       QueryTemplate(Pattern("restart count", "pod"),
                     "kube_pod_container_status_restarts_total{{pod=\"{pod_name}\"}}",
                     "Container restart count for pod", "restarts") >>

\* The position of the first brace of tpl from i on, Len(tpl) + 1 if none.
NextBrace(tpl, i) ==
    Min({m \in i..Len(tpl) : Char(tpl, m) \in {"{", "}"}} \cup {Len(tpl) + 1})

\* The replacement fields {name} of a format string, from position i on;
\* {{ and }} are escaped braces.
RECURSIVE format_fields(_, _)
format_fields(tpl, i) ==
    LET b == NextBrace(tpl, i) IN
    IF b > Len(tpl) THEN {}
    ELSE IF StartsAt(tpl, b, "{{") \/ StartsAt(tpl, b, "}}") THEN format_fields(tpl, b + 2)
    ELSE LET k == Min({m \in (b + 1)..Len(tpl) : Char(tpl, m) = "}"})
         IN  {SubSeq(tpl, b + 1, k - 1)} \cup format_fields(tpl, k + 1)

\* The text str.format renders from position i on, every field being a key
\* of params: literal text is copied, {{ and }} give one brace, and {name}
\* gives str(params[name]).
RECURSIVE format_from(_, _, _)
format_from(tpl, params, i) ==
    LET b == NextBrace(tpl, i)
        literal == SubSeq(tpl, i, b - 1)
    IN  IF b > Len(tpl) THEN literal
        ELSE IF StartsAt(tpl, b, "{{") THEN literal \o "{" \o format_from(tpl, params, b + 2)
        ELSE IF StartsAt(tpl, b, "}}") THEN literal \o "}" \o format_from(tpl, params, b + 2)
        ELSE LET k == Min({m \in (b + 1)..Len(tpl) : Char(tpl, m) = "}"})
             IN  literal \o str(Get(params, SubSeq(tpl, b + 1, k - 1), None))
                     \o format_from(tpl, params, k + 1)

\* tpl.format(**params): the rendered text, or KeyError for a field that is
\* no key of params.
format(tpl, params) ==
    IF \E name \in format_fields(tpl, 1) : ~HasKey(params, name) THEN Raise
    ELSE Str(format_from(tpl, params, 1))

\* The parameter names of _extract_parameters and the text whose presence
\* in the PromQL template asks for each, in the order of the if statements.
parameter_keys ==
    << <<"pod", "pod_name">>, <<"namespace", "namespace">>,
       <<"service", "service_name">>, <<"node", "node_name">> >>

\* QueryTranslator._extract_parameters: `match.lastindex >= 1` raises
\* TypeError when lastindex is None, that is when the pattern has no group.
_extract_parameters(match, template) ==
    LET asked == SelectSeq(parameter_keys, LAMBDA key : In(key[1], template.promql))
    IN  IF asked # <<>> /\ match.lastindex.t = "none" THEN Raise
        ELSE Dict([i \in 1..Len(asked) |-> <<asked[i][2], Str(match.group1)>>])

\* Mutant: only the phrases that begin with "last" are read.
_extract_time_range_last_only(query) ==
    LET query_lower == LowerStr(query) IN
    IF In("last hour", query_lower) THEN "1h"
    ELSE IF In("last 30 minutes", query_lower) THEN "30m"
    ELSE IF In("last 15 minutes", query_lower) THEN "15m"
    ELSE IF In("last 5 minutes", query_lower) THEN "5m"
    ELSE IF In("last day", query_lower) THEN "1d"
    ELSE IF In("last week", query_lower) THEN "7d"
    ELSE "1h"

\* QueryTranslator._extract_time_range
_extract_time_range(query) ==
    LET query_lower == LowerStr(query) IN
    IF In("last hour", query_lower) \/ In("past hour", query_lower) THEN "1h"
    ELSE IF In("last 30 minutes", query_lower) THEN "30m"
    ELSE IF In("last 15 minutes", query_lower) THEN "15m"
    ELSE IF In("last 5 minutes", query_lower) THEN "5m"
    ELSE IF In("last day", query_lower) \/ In("past day", query_lower) THEN "1d"
    ELSE IF In("last week", query_lower) THEN "7d"
    ELSE "1h"

\* QueryTranslator._construct_from_keywords
_construct_from_keywords(query) ==
    LET query_lower == LowerStr(query) IN
    IF In("memory", query_lower) /\ In("pod", query_lower)
    THEN Str("container_memory_usage_bytes")
    ELSE IF In("cpu", query_lower) /\ In("pod", query_lower)
    THEN Str("rate(container_cpu_usage_seconds_total[5m])")
    ELSE IF In("request", query_lower) THEN Str("rate(http_requests_total[5m])")
    ELSE None

\* The except branch of translate
translation_error == Dict(<< <<"success", Bool(FALSE)>>, <<"error", Str("Exception")>> >>)

\* Mutant: the loop body is outside the try, so its exception leaves
\* translate.
render_unguarded(template, match, query) ==
    LET params == _extract_parameters(match, template) IN
    IF params.t = "raise" THEN Raise
    ELSE LET promql == format(template.promql, params) IN
         IF promql.t = "raise" THEN Raise
         ELSE Dict(<< <<"success", Bool(TRUE)>>,
                      <<"promql", promql>>,
                      <<"template", Str(template.description)>>,
                      <<"category", Str(template.category)>>,
                      <<"time_range", Str(_extract_time_range(query))>>,
                      <<"parameters", params>> >>)

\* The body of the loop of translate for a template that matched.
render(template, match, query) ==
    LET params == _extract_parameters(match, template) IN
    IF params.t = "raise" THEN translation_error
    ELSE LET promql == format(template.promql, params) IN
         IF promql.t = "raise" THEN translation_error
         ELSE Dict(<< <<"success", Bool(TRUE)>>,
                      <<"promql", promql>>,
                      <<"template", Str(template.description)>>,
                      <<"category", Str(template.category)>>,
                      <<"time_range", Str(_extract_time_range(query))>>,
                      <<"parameters", params>> >>)

\* Mutant: the keyword fallback succeeds whatever it constructed.
translate_fallback_unchecked(query) ==
    Dict(<< <<"success", Bool(TRUE)>>,
            <<"promql", _construct_from_keywords(query)>>,
            <<"template", Str("keyword-based")>>,
            <<"category", Str("generic")>>,
            <<"time_range", Str(_extract_time_range(query))>> >>)

\* translate when no template matched: the keyword fallback or the error.
translate_fallback(query) ==
    LET promql == _construct_from_keywords(query) IN
    IF Truthy(promql)
    THEN Dict(<< <<"success", Bool(TRUE)>>,
                 <<"promql", promql>>,
                 <<"template", Str("keyword-based")>>,
                 <<"category", Str("generic")>>,
                 <<"time_range", Str(_extract_time_range(query))>> >>)
    ELSE Dict(<< <<"success", Bool(FALSE)>>,
                 <<"error", Str("Could not translate query. Please provide more specific information.")>> >>)

\* Mutant: the last matching template wins.
translate_last_match(templates, query, i) ==
    LET matching == {k \in 1..Len(templates) :
                        re_search(templates[k].pattern, LowerStr(query)).matched}
    IN  IF matching = {} THEN translate_fallback(query)
        ELSE render(templates[Max(matching)],
                    re_search(templates[Max(matching)].pattern, LowerStr(query)), query)

\* `for template in self.templates` of translate, from the i-th template
\* on: the first template whose pattern matches the lowercased query
\* returns.
RECURSIVE translate_from(_, _, _)
translate_from(templates, query, i) ==
    IF i > Len(templates) THEN translate_fallback(query)
    ELSE LET match == re_search(templates[i].pattern, LowerStr(query)) IN
         IF match.matched THEN render(templates[i], match, query)
         ELSE translate_from(templates, query, i + 1)

\* QueryTranslator.translate; query is a str, or None for a caller that
\* passes no text (query.lower() raises inside the try).
translate(templates, query) ==
    IF query.t # "str" THEN translation_error
    ELSE translate_from(templates, query.v, 1)

(***************************************************************************)
(* Queries under test: at most MaxQueryWords phrases of QueryPhrases       *)
(* joined by single spaces (a phrase may itself be a newline), and every   *)
(* pair of time phrases.                                                   *)
(***************************************************************************)
QueryPhrases ==
    {"Show me memory usage for pod foo", "Show me request rate for service bar",
     "Show me memory usage for", "CPU usage of", "pod Foo-1", "pods in", "namespace bar",
     "service bar", "over the last hour", "over the past day", "pod", "\n"}

TimePhrases ==
    {"last 5 minutes", "last 15 minutes", "last 30 minutes", "last hour", "Last Day",
     "last week", "past hour", "past day", "past week", "latest"}

RECURSIVE PhrasesUpTo(_)
PhrasesUpTo(n) ==
    IF n = 0 THEN {""}
    ELSE LET shorter == PhrasesUpTo(n - 1) IN
         shorter \cup {IF s = "" THEN w ELSE s \o " " \o w : s \in shorter, w \in QueryPhrases}

Queries ==
    PhrasesUpTo(MaxQueryWords)
        \cup {"memory of pods " \o a \o " or " \o b : a \in TimePhrases, b \in TimePhrases}

\* A template table as a deployment may configure it: the loaded table and
\* a further template whose pattern r'disk usage.*node\s+\S+' has no group.
configured_templates ==
    Append(_load_templates,
           QueryTemplate([phrase |-> "disk usage", entity |-> "node", groups |-> 0],
                         "node_filesystem_avail_bytes{{node=\"{node_name}\"}}",
                         "Free disk space on a node", "node"))

ConfiguredQueries ==
    {a \o b : a \in {"Show me disk usage on node n1", "Show me resource usage on node n1",
                      "disk usage of all nodes"},
              b \in {"", " over the last week", " and pod foo"}}

(***************************************************************************)
(* PrometheusClient (src/prometheus-mcp-server/src/prometheus_client.py).  *)
(* A float is the exact ratio <<n, d>> of two integers, d > 0, in lowest   *)
(* terms; the int 0 of the empty results stays an int.  A datetime is the  *)
(* number of seconds since the epoch.                                      *)
(***************************************************************************)
Abs(n) == IF n < 0 THEN -n ELSE n

RECURSIVE GCD(_, _)
GCD(a, b) == IF b = 0 THEN a ELSE GCD(b, a % b)

\* The float n / d
Float(n, d) ==
    LET g == GCD(Abs(n), Abs(d))
        sign == IF d < 0 THEN -1 ELSE 1
    IN  [t |-> "number", v |-> <<sign * (n \div g), sign * (d \div g)>>]

IsNumber(x) == x.t \in {"int", "number"}

\* Numerator and denominator of an int or a float.
Numer(x) == IF x.t = "int" THEN x.v ELSE x.v[1]
Denom(x) == IF x.t = "int" THEN 1 ELSE x.v[2]

\* x < y, x + y, x * y and x / y for two numbers
Less(x, y) == Numer(x) * Denom(y) < Numer(y) * Denom(x)
Plus(x, y) == Float(Numer(x) * Denom(y) + Numer(y) * Denom(x), Denom(x) * Denom(y))
Times(x, y) == Float(Numer(x) * Numer(y), Denom(x) * Denom(y))
Minus(x, y) == Plus(x, Times(Num(-1), y))
Divide(x, y) == Float(Numer(x) * Denom(y), Denom(x) * Numer(y))

\* sum(values) of a list of floats, added by halves
RECURSIVE sum(_)
sum(values) ==
    IF Len(values) = 0 THEN Num(0)
    ELSE IF Len(values) = 1 THEN Plus(Num(0), values[1])
    ELSE Plus(sum(SubSeq(values, 1, Len(values) \div 2)),
              sum(SubSeq(values, Len(values) \div 2 + 1, Len(values))))

\* max(values) and min(values) of a non-empty list of floats
max(values) ==
    values[CHOOSE i \in 1..Len(values) :
              /\ \A j \in 1..Len(values) : ~Less(values[i], values[j])
              /\ \A j \in 1..(i - 1) : Less(values[j], values[i])]
min(values) ==
    values[CHOOSE i \in 1..Len(values) :
              /\ \A j \in 1..Len(values) : ~Less(values[j], values[i])
              /\ \A j \in 1..(i - 1) : Less(values[i], values[j])]

\* The digits of the decimal number of an int.
Digits == <<"0", "1", "2", "3", "4", "5", "6", "7", "8", "9">>

\* text.strip()
RECURSIVE strip(_)
strip(text) ==
    IF Len(text) = 0 THEN text
    ELSE IF Char(text, 1) \in WhitespaceChars THEN strip(SubSeq(text, 2, Len(text)))
    ELSE IF Char(text, Len(text)) \in WhitespaceChars THEN strip(SubSeq(text, 1, Len(text) - 1))
    ELSE text

\* The value of a run of decimal digits, -1 for the empty text and for a
\* text with any other character.
RECURSIVE DigitsValue(_)
DigitsValue(text) ==
    IF Len(text) = 0 THEN -1
    ELSE LET digit == {k \in 1..Len(Digits) : Digits[k] = Char(text, Len(text))} IN
         IF digit = {} THEN -1
         ELSE IF Len(text) = 1 THEN (CHOOSE k \in digit : TRUE) - 1
         ELSE LET rest == DigitsValue(SubSeq(text, 1, Len(text) - 1)) IN
              IF rest = -1 THEN -1 ELSE rest * 10 + (CHOOSE k \in digit : TRUE) - 1

\* The sign a number text starts with, and the text after it.
SignOf(text) == IF Len(text) > 0 /\ Char(text, 1) = "-" THEN -1 ELSE 1
Unsigned(text) ==
    IF Len(text) > 0 /\ Char(text, 1) \in {"-", "+"} THEN SubSeq(text, 2, Len(text)) ELSE text

\* int(text): surrounding whitespace, an optional sign and decimal digits;
\* ValueError (Raise) for every other text.  (The digit separator "_" is in
\* no text of the model.)
int(text) ==
    LET value == DigitsValue(Unsigned(strip(text))) IN
    IF value = -1 THEN Raise ELSE Num(SignOf(strip(text)) * value)

\* 10 ** n
RECURSIVE Pow10(_)
Pow10(n) == IF n = 0 THEN 1 ELSE 10 * Pow10(n - 1)

\* The place of the first "." of a text, 0 without one.
PointAt(text) ==
    IF \E i \in 1..Len(text) : Char(text, i) = "."
    THEN CHOOSE i \in 1..Len(text) :
             Char(text, i) = "." /\ \A j \in 1..(i - 1) : Char(text, j) # "."
    ELSE 0

\* float(text) for the sample values of a Prometheus response: surrounding
\* whitespace, an optional sign, decimal digits and an optional fraction;
\* ValueError (Raise) for a text that is no number.  (Exponents and the
\* texts "NaN" and "Inf" are in no response of the model.)
float(text) ==
    LET body == Unsigned(strip(text))
        point == PointAt(body)
        whole == IF point = 0 THEN body ELSE SubSeq(body, 1, point - 1)
        fraction == IF point = 0 THEN "" ELSE SubSeq(body, point + 1, Len(body))
        w == IF whole = "" /\ fraction # "" THEN 0 ELSE DigitsValue(whole)
        f == IF fraction = "" /\ whole # "" THEN 0 ELSE DigitsValue(fraction)
    IN  IF w = -1 \/ f = -1 THEN Raise
        ELSE Float(SignOf(strip(text)) * (w * Pow10(Len(fraction)) + f), Pow10(Len(fraction)))

\* Mutant: a time range in minutes is taken as hours.
_parse_time_range_hours(time_range, end_time) ==
    IF Len(time_range) = 0 THEN Raise
    ELSE LET value == int(SubSeq(time_range, 1, Len(time_range) - 1)) IN
         IF value.t = "raise" THEN Raise
         ELSE Num(end_time.v - value.v * 3600)

\* PrometheusClient._parse_time_range: the unit is the last character, the
\* value the int before it; time_range[-1] raises IndexError for the empty
\* text and int() raises ValueError for a value that is no number.
_parse_time_range(time_range, end_time) ==
    IF Len(time_range) = 0 THEN Raise
    ELSE LET unit == Char(time_range, Len(time_range))
             value == int(SubSeq(time_range, 1, Len(time_range) - 1))
         IN  IF value.t = "raise" THEN Raise
             ELSE CASE unit = "h" -> Num(end_time.v - value.v * 3600)
                    [] unit = "m" -> Num(end_time.v - value.v * 60)
                    [] unit = "d" -> Num(end_time.v - value.v * 86400)
                    [] unit = "w" -> Num(end_time.v - value.v * 604800)
                    [] OTHER -> Num(end_time.v - 3600)

\* PrometheusClient._calculate_trend
_calculate_trend(values) ==
    IF Len(values) < 2 THEN "unknown"
    ELSE LET half == Len(values) \div 2
             first_half == Divide(sum(SubSeq(values, 1, half)), Num(half))
             second_half == Divide(sum(SubSeq(values, half + 1, Len(values))),
                                   Num(Len(values) - half))
         IN  IF Less(Times(first_half, Float(11, 10)), second_half) THEN "increasing"
             ELSE IF Less(second_half, Times(first_half, Float(9, 10))) THEN "decreasing"
             ELSE "stable"

\* The parsed result of a response without series.
empty_range_result ==
    Dict(<< <<"current_value", Num(0)>>, <<"max_value", Num(0)>>, <<"min_value", Num(0)>>,
            <<"average_value", Num(0)>>, <<"trend", Str("unknown")>>,
            <<"values", List(<<>>)>>, <<"series_count", Num(0)>> >>)

\* The float values of one series {'metric': ..., 'values': [[t, "v"], ...]}
series_values(series) == [i \in 1..Len(series.values) |-> float(series.values[i][2])]

\* all_values: the samples of all series in series order, joined by
\* halves.
RECURSIVE Flatten(_)
Flatten(results) ==
    IF Len(results) = 0 THEN <<>>
    ELSE IF Len(results) = 1 THEN series_values(results[1])
    ELSE Flatten(SubSeq(results, 1, Len(results) \div 2))
             \o Flatten(SubSeq(results, Len(results) \div 2 + 1, Len(results)))

\* series_data: one entry a series.
series_data(results) ==
    [k \in 1..Len(results) |->
        Dict(<< <<"metric", results[k].metric>>,
                <<"values", List(series_values(results[k]))>>,
                <<"timestamps",
                  List([i \in 1..Len(results[k].values) |-> Num(results[k].values[i][1])])>> >>)]

\* The statistics of the parsed result with its current value.
range_result(results, all_values, current_value) ==
    Dict(<< <<"current_value", current_value>>,
            <<"max_value", IF all_values = <<>> THEN Num(0) ELSE max(all_values)>>,
            <<"min_value", IF all_values = <<>> THEN Num(0) ELSE min(all_values)>>,
            <<"average_value", IF all_values = <<>> THEN Num(0)
                               ELSE Divide(sum(all_values), Num(Len(all_values)))>>,
            <<"trend", Str(IF all_values = <<>> THEN "unknown"
                           ELSE _calculate_trend(all_values))>>,
            <<"values", List(series_data(results))>>,
            <<"series_count", Num(Len(results))>> >>)

\* Mutant: current is the first sample.
_parse_range_result_first(results) ==
    IF results = <<>> THEN empty_range_result
    ELSE IF \E i \in 1..Len(Flatten(results)) : Flatten(results)[i].t = "raise" THEN Raise
    ELSE LET all_values == Flatten(results) IN
         range_result(results, all_values,
                      IF all_values = <<>> THEN Num(0) ELSE all_values[1])

\* PrometheusClient._parse_range_result for result['data']['result'] =
\* results; a sample value that is no number raises ValueError.
_parse_range_result(results) ==
    IF results = <<>> THEN empty_range_result
    ELSE IF \E i \in 1..Len(Flatten(results)) : Flatten(results)[i].t = "raise" THEN Raise
    ELSE LET all_values == Flatten(results) IN
         range_result(results, all_values,
                      IF all_values = <<>> THEN Num(0) ELSE all_values[Len(all_values)])

(***************************************************************************)
(* InsightGenerator (src/prometheus-mcp-server/src/insight_generator.py).  *)
(* The pictograph an insight starts with is written by its name between    *)
(* colons, and the backquotes around the PromQL as apostrophes.            *)
(***************************************************************************)
\* n / d rounded to the nearest integer, a tie to the even one (n, d > 0).
RoundHalfEven(n, d) ==
    LET q == n \div d
        r == n % d
    IN  IF 2 * r > d \/ (2 * r = d /\ q % 2 = 1) THEN q + 1 ELSE q

\* text.zfill(width)
RECURSIVE zfill(_, _)
zfill(text, width) == IF Len(text) >= width THEN text ELSE zfill("0" \o text, width)

\* f"{x:.<places>f}" for an int or a float x
format_fixed(x, places) ==
    LET scaled == RoundHalfEven(Abs(Numer(x)) * Pow10(places), Denom(x)) IN
    (IF Numer(x) < 0 THEN "-" ELSE "")
        \o ToString(scaled \div Pow10(places)) \o "."
        \o zfill(ToString(scaled % Pow10(places)), places)

\* Mutant: a value equal to a bound triggers its tier.
RECURSIVE first_above_or_equal(_, _)
first_above_or_equal(current, rules) ==
    IF rules = <<>> THEN <<>>
    ELSE IF ~Less(current, Num(rules[1][1])) THEN <<rules[1][2]>>
    ELSE first_above_or_equal(current, Tail(rules))

\* The first text of rules whose limit `current` is above: the if / elif
\* chain of one kind of metric.  A rule is <<limit, text>>.
RECURSIVE first_above(_, _)
first_above(current, rules) ==
    IF rules = <<>> THEN <<>>
    ELSE IF Less(Num(rules[1][1]), current) THEN <<rules[1][2]>>
    ELSE first_above(current, Tail(rules))

memory_rules ==
    << <<90, ":red_circle: CRITICAL: Memory usage > 90% - OOMKill risk">>,
       <<80, ":orange_circle: WARNING: Memory usage > 80%">>,
       <<70, ":yellow_circle: CAUTION: Memory usage > 70%">> >>
cpu_rules ==
    << <<85, ":red_circle: CRITICAL: CPU usage > 85% - throttling likely">>,
       <<70, ":orange_circle: WARNING: CPU usage > 70%">> >>
latency_rules ==
    << <<3000, ":red_circle: CRITICAL: Latency > 3s - user experience severely impacted">>,
       <<1000, ":orange_circle: WARNING: Latency > 1s - user experience degraded">>,
       <<500, ":yellow_circle: CAUTION: Latency > 500ms">> >>
error_rules ==
    << <<5, ":red_circle: CRITICAL: Error rate > 5%">>,
       <<1, ":orange_circle: WARNING: Error rate > 1%">> >>

\* InsightGenerator._check_thresholds (the average is not read)
_check_thresholds(query, current, average) ==
    LET query_lower == LowerStr(query) IN
    (IF In("memory", query_lower) THEN first_above(current, memory_rules) ELSE <<>>)
        \o (IF In("cpu", query_lower) THEN first_above(current, cpu_rules) ELSE <<>>)
        \o (IF In("latency", query_lower) \/ In("duration", query_lower)
            THEN first_above(current, latency_rules) ELSE <<>>)
        \o (IF In("error", query_lower) THEN first_above(current, error_rules) ELSE <<>>)

\* The insight on the trend
trend_insight(trend) ==
    IF trend.t # "str" THEN <<>>
    ELSE CASE trend.v = "increasing" ->
                  <<":warning: Metric is increasing over time - monitor closely">>
           [] trend.v = "decreasing" ->
                  <<":white_check_mark: Metric is decreasing - situation improving">>
           [] trend.v = "stable" -> <<":information_source: Metric is stable">>
           [] OTHER -> <<>>

\* The insight on the spread between min and max
variability_insight(max_value, min_value) ==
    IF Less(Num(0), max_value) /\ ~Less(min_value, Num(0))
    THEN LET variation == Times(Divide(Minus(max_value, min_value), max_value), Num(100)) IN
         IF Less(Num(50), variation)
         THEN <<"High variability detected: " \o format_fixed(variation, 1)
                    \o "% variation between min and max">>
         ELSE <<>>
    ELSE <<>>

\* What generate returns when anything in it raises.
unable_to_generate == <<"Unable to generate insights">>

\* len(x) of a list, a dict or a str
len(x) == Len(x.v)

\* Mutant: the PromQL comes first.
generate_promql_first(query, promql, data) ==
    IF data.t # "dict" THEN unable_to_generate
    ELSE LET current_value == Get(data, "current_value", Num(0))
             trend == Get(data, "trend", Str("unknown"))
             max_value == Get(data, "max_value", Num(0))
             min_value == Get(data, "min_value", Num(0))
             avg_value == Get(data, "average_value", Num(0))
             anomalies == Get(data, "anomalies", List(<<>>))
             series_count == Get(data, "series_count", Num(0))
         IN  IF \/ ~IsNumber(current_value)
                \/ ~IsNumber(max_value)
                \/ (Less(Num(0), max_value) /\ ~IsNumber(min_value))
                \/ (Truthy(anomalies) /\ anomalies.t \notin {"list", "dict", "str"})
                \/ ~IsNumber(series_count)
             THEN unable_to_generate
             ELSE <<"PromQL: '" \o promql \o "'">>
                  \o (IF Less(Num(0), current_value)
                      THEN <<"Current value: " \o format_fixed(current_value, 2)>> ELSE <<>>)
                  \o trend_insight(trend)
                  \o variability_insight(max_value, min_value)
                  \o _check_thresholds(query, current_value, avg_value)
                  \o (IF Truthy(anomalies)
                      THEN <<":mag: " \o ToString(len(anomalies)) \o " anomalies detected">>
                      ELSE <<>>)
                  \o (IF Less(Num(10), series_count)
                      THEN <<"High cardinality: " \o ToString(series_count.v)
                                 \o " time series returned">>
                      ELSE <<>>)

\* InsightGenerator.generate: the list of insights.  A comparison of a
\* field that is no number, len() of anomalies that have none, and .get on
\* data that is no dict raise, and the except clause returns the one entry
\* "Unable to generate insights".
generate(query, promql, data) ==
    IF data.t # "dict" THEN unable_to_generate
    ELSE LET current_value == Get(data, "current_value", Num(0))
             trend == Get(data, "trend", Str("unknown"))
             max_value == Get(data, "max_value", Num(0))
             min_value == Get(data, "min_value", Num(0))
             avg_value == Get(data, "average_value", Num(0))
             anomalies == Get(data, "anomalies", List(<<>>))
             series_count == Get(data, "series_count", Num(0))
         IN  IF \/ ~IsNumber(current_value)
                \/ ~IsNumber(max_value)
                \/ (Less(Num(0), max_value) /\ ~IsNumber(min_value))
                \/ (Truthy(anomalies) /\ anomalies.t \notin {"list", "dict", "str"})
                \/ ~IsNumber(series_count)
             THEN unable_to_generate
             ELSE (IF Less(Num(0), current_value)
                   THEN <<"Current value: " \o format_fixed(current_value, 2)>> ELSE <<>>)
                  \o trend_insight(trend)
                  \o variability_insight(max_value, min_value)
                  \o _check_thresholds(query, current_value, avg_value)
                  \o (IF Truthy(anomalies)
                      THEN <<":mag: " \o ToString(len(anomalies)) \o " anomalies detected">>
                      ELSE <<>>)
                  \o (IF Less(Num(10), series_count)
                      THEN <<"High cardinality: " \o ToString(series_count.v)
                                 \o " time series returned">>
                      ELSE <<>>)
                  \o <<"PromQL: '" \o promql \o "'">>

(***************************************************************************)
(* EventProcessor.                                                         *)
(***************************************************************************)
\* self.max_concurrent_events = int(os.getenv('MAX_CONCURRENT_EVENTS', '3')):
\* the cap is configuration.  The model runs with a cap of 2, so that three
\* events are enough to reach it.
max_concurrent_events == 2

\* Final outcomes of a _handle_event task: the 'resolved' notification was
\* sent, the 'investigation failed' notification was sent, or the except
\* branch ran.  "raised" would be an exception leaving the task.
HandlerFinished == {"resolved", "failed", "errored", "raised"}

\* A handler task holds its event while it runs; the event is dropped when
\* the task ends.  "none": no task has been created for the id.
NoEvent == [event_id |-> 0]
NoTask == [state |-> "none", event |-> NoEvent]

\* Task.done() of the handler task of event id
done(id) == handler[id].state \in HandlerFinished

Ids == 1..submitted

QueuedIds == {event_queue[i].event.event_id : i \in 1..Len(event_queue)}

RunningIds == {id \in Ids : handler[id].state = "running"}

\* Results of slack.send_notification: it returns (a ts or None) or raises
\* (only SlackApiError is caught inside it).
NotifyOutcomes == {"returned", "raised"}

DispInit ==
    /\ event_queue = <<>>
    /\ running = FALSE
    /\ processing_task = "none"
    /\ active_tasks = {}
    /\ submitted = 0
    /\ handler = <<>>
    /\ stop_pc = "idle"
    /\ put_result = "none"

\* WorkflowEngine.__init__ loads the registry; no incident is in progress.
WfIdle ==
    /\ self_workflows = workflows
    /\ invoked = {}
    /\ h_pc = "idle"
    /\ h_event = NoEvent
    /\ h_log = <<>>
    /\ wf_pc = "idle"
    /\ wf_name = ""
    /\ wf_step = 0
    /\ context = NoContext
    /\ wf_result = None

NoRequest == [query |-> None, time_range |-> None]

\* The gateway after module import: QueryTranslator() has loaded the
\* template table; no request is in progress.
GwIdle ==
    /\ self_templates = _load_templates
    /\ g_pc = "idle"
    /\ request = NoRequest
    /\ translation_result = None
    /\ window = None
    /\ query_result = None
    /\ insights = None
    /\ response = None
    /\ g_log = <<>>

\* No query of the metrics adapter has been made.
NoAnswer == [status |-> -1, body |-> None, metrics |-> None]

\* The callers of DevOpsAgent.stop(): the task created by handle_signal,
\* the except clause of start(), and the finally clause of main().
StopCallers == {"signal", "start", "main"}

\* DevOpsAgent.__init__ and PrometheusMCPClient.__init__: the agent is not
\* running, has no event processor, and the adapter has no session; main()
\* has not begun and stop() has not been called.
AgIdle ==
    /\ agent_running = FALSE
    /\ event_processor = FALSE
    /\ main_pc = "idle"
    /\ stop_calls = [caller \in StopCallers |-> "none"]
    /\ shutdown_notifications = 0
    /\ session = "None"
    /\ sessions_created = 0
    /\ mcp_answer = NoAnswer

\* The handler tasks that can run at once: the dispatcher creates a task
\* only while len(active_tasks) < max_concurrent_events.
Slots == 1..max_concurrent_events

\* The locals of a handler task that has not been created: context is the
\* place in objects of the dict its execute_workflow call created (0: none
\* yet); alone is what that dict holds when only the task's own steps have
\* written to it (None before the call).
NoFrame ==
    [pc |-> "idle", event |-> NoEvent, workflow_name |-> "", step |-> 0, context |-> 0,
     alone |-> None]

CcIdle ==
    /\ task_frames = [k \in Slots |-> NoFrame]
    /\ objects = <<>>

SelIdle ==
    /\ sel_detail = [alarmName |-> <<>>, state |-> ""]
    /\ sel_built = <<>>
    /\ sel_workflow = "unset"

\* EventProcessor.__init__
Init == DispInit /\ SelIdle /\ WfIdle /\ GwIdle /\ AgIdle /\ CcIdle

\* EventProcessor.start.  (_simulate_event_ingestion only sleeps and logs.)
start ==
    /\ processing_task = "none"
    /\ running' = TRUE
    /\ processing_task' = "alive"
    /\ UNCHANGED <<event_queue, active_tasks, submitted, handler, stop_pc,
                   put_result, selVars, wfVars, gwVars, agVars, ccVars>>

\* EventProcessor.process_event(event_data): build the Event and put
\* (priority.value, event) on the queue; an exception is logged and
\* swallowed.
process_event(event_data) ==
    LET event == Event(event_data)
        r == heappush(event_queue,
                      [rank |-> EventPriority[event.priority], event |-> event])
    IN  /\ submitted' = submitted + 1
        /\ handler' = Append(handler, NoTask)
        /\ event_queue' = r.heap
        /\ put_result' = IF r.err THEN "TypeError" ELSE "ok"
        /\ UNCHANGED <<running, processing_task, active_tasks, stop_pc, selVars, wfVars, gwVars, agVars, ccVars>>

Submit ==
    /\ submitted < MaxEvents
    /\ \E d \in DispatchDetails :
          process_event([id |-> submitted + 1, detail |-> d])

\* Mutant: the concurrency check admits one handler too many.
CanStartMoreOffByOne(active) == Cardinality(active) <= max_concurrent_events

\* `if len(active_tasks) < self.max_concurrent_events`
CanStartMore(active) == Cardinality(active) < max_concurrent_events

\* One iteration of the loop of _process_events: reap the finished tasks;
\* when below the cap, get the next item (TimeoutError on an empty queue is
\* passed over; any other exception is logged by the loop's except branch)
\* and create its handler task.
LoopIteration ==
    LET active == {t \in active_tasks : ~done(t)} IN
    IF CanStartMore(active) /\ event_queue # <<>>
    THEN LET r == heappop(event_queue) IN
         /\ event_queue' = r.heap
         /\ IF r.err
            THEN /\ active_tasks' = active
                 /\ UNCHANGED handler
            ELSE /\ handler' = [handler EXCEPT ![r.item.event.event_id] =
                                   [state |-> "running", event |-> r.item.event]]
                 /\ active_tasks' = active \cup {r.item.event.event_id}
    ELSE /\ active_tasks' = active
         /\ UNCHANGED <<event_queue, handler>>

\* EventProcessor._process_events, one turn of `while self.running`.
_process_events ==
    /\ processing_task = "alive"
    /\ running
    /\ LoopIteration
    /\ UNCHANGED <<running, processing_task, submitted, stop_pc, put_result, selVars, wfVars, gwVars, agVars, ccVars>>

\* EventProcessor.stop, up to its await: clear the flag and cancel the loop
\* task (cancel() of a task that has already ended does nothing).
stop ==
    /\ stop_pc = "idle"
    /\ processing_task # "none"
    /\ running' = FALSE
    /\ processing_task' =
          IF processing_task = "alive" THEN "cancelling" ELSE processing_task
    /\ stop_pc' = "awaiting"
    /\ UNCHANGED <<event_queue, active_tasks, submitted, handler, put_result, selVars, wfVars, gwVars, agVars, ccVars>>

\* The cancelled loop task resumes at the await it is suspended in
\* (wait_for(get), sleep(0.1) or sleep(1)).  CancelledError is not an
\* Exception, so neither except clause of the loop catches it and the task
\* ends.  While suspended in wait_for(self.event_queue.get(), 1.0) with the
\* get already completed, the outcome depends on the interpreter: wait_for
\* of CPython 3.8 to 3.11 returns the completed result (or raises the get's
\* exception) instead of raising CancelledError, so the iteration goes on
\* to create the handler task (or to the loop's except branch), sleeps and
\* then leaves `while self.running`; later versions raise CancelledError
\* there too.
_process_events_cancelled ==
    /\ processing_task = "cancelling"
    /\ \/ /\ processing_task' = "cancelled"
          /\ UNCHANGED <<event_queue, active_tasks, handler>>
       \/ /\ CanStartMore({t \in active_tasks : ~done(t)})
          /\ event_queue # <<>>
          /\ LoopIteration
          /\ processing_task' = "finished"
    /\ UNCHANGED <<running, submitted, stop_pc, put_result, selVars, wfVars, gwVars, agVars, ccVars>>

\* EventProcessor.stop, after `await self.processing_task`.
stop_return ==
    /\ stop_pc = "awaiting"
    /\ processing_task \in {"cancelled", "finished"}
    /\ stop_pc' = "returned"
    /\ UNCHANGED <<event_queue, running, processing_task, active_tasks, submitted,
                   handler, put_result, selVars, wfVars, gwVars, agVars, ccVars>>

\* WorkflowEngine.execute_workflow as _handle_event sees it: a result with
\* success False for a name that is not in the registry, and otherwise
\* success True or (a step raised) success False.  It does not raise.
execute_workflow_success(workflow_name, steps_ok) ==
    workflow_name \in DOMAIN workflows /\ steps_ok

\* Mutant: an exception of the error notification leaves the handler.
error_notification_unguarded(n_error) ==
    IF n_error = "raised" THEN "raised" ELSE "errored"

\* The `except Exception` branch of _handle_event: the error notification
\* is sent inside its own try / except Exception: pass.
error_notification(n_error) == "errored"

\* EventProcessor._handle_event from start to end, given the outcomes of
\* the 'new incident' notification, of the workflow's steps, of the
\* completion notification and of the error notification.
_handle_event_outcome(workflow_name, n_new, steps_ok, n_result, n_error) ==
    IF n_new = "raised" THEN error_notification(n_error)
    ELSE LET success == execute_workflow_success(workflow_name, steps_ok) IN
         IF n_result = "raised" THEN error_notification(n_error)
         ELSE IF success THEN "resolved" ELSE "failed"

\* The handler task of event id runs to its end; notify_outcomes and
\* step_outcomes are what the notifier and the workflow's steps can do.
_handle_event(id, notify_outcomes, step_outcomes) ==
    /\ id \in Ids
    /\ handler[id].state = "running"
    /\ LET workflow_name == _determine_workflow(handler[id].event.detail) IN
       \E outcome \in
            {_handle_event_outcome(workflow_name, n_new, steps_ok, n_result, n_error) :
                n_new \in notify_outcomes, steps_ok \in step_outcomes,
                n_result \in notify_outcomes, n_error \in notify_outcomes} :
          handler' = [handler EXCEPT ![id] = [state |-> outcome, event |-> NoEvent]]
    /\ UNCHANGED <<event_queue, running, processing_task, active_tasks, submitted,
                   stop_pc, put_result, selVars, wfVars, gwVars, agVars, ccVars>>

HandleEvent == \E id \in 1..MaxEvents : _handle_event(id, NotifyOutcomes, BOOLEAN)

Next ==
    \/ start
    \/ Submit
    \/ _process_events
    \/ HandleEvent
    \/ stop
    \/ _process_events_cancelled
    \/ stop_return

Spec == Init /\ [][Next]_vars

(***************************************************************************)
(* BurstSpec: a backlog of up to MaxBurst events is submitted before       *)
(* start(), then the dispatcher runs and is not stopped; the notifier      *)
(* works and the workflows succeed.  Every behaviour of BurstSpec is a     *)
(* behaviour of the program; it is the part of it in which a queue of      *)
(* seven events can be explored.                                           *)
(***************************************************************************)
MaxBurst == 7

BurstSubmit ==
    /\ submitted < MaxBurst
    /\ processing_task = "none"
    /\ \E d \in DispatchDetails :
          process_event([id |-> submitted + 1, detail |-> d])

BurstHandleEvent == \E id \in 1..MaxBurst : _handle_event(id, {"returned"}, {TRUE})

BurstNext ==
    \/ BurstSubmit
    \/ start
    \/ _process_events
    \/ BurstHandleEvent

BurstSpec == Init /\ [][BurstNext]_vars

(***************************************************************************)
(* SelSpec: the pure functions Event._determine_priority and               *)
(* EventProcessor._determine_workflow applied to every detail of Details.  *)
(***************************************************************************)
SelInit ==
    /\ DispInit
    /\ AgIdle
    /\ CcIdle
    /\ WfIdle
    /\ GwIdle
    /\ sel_detail \in Details
    /\ sel_built = <<>>
    /\ sel_workflow = "unset"

\* Event(event_data) for a payload carrying sel_detail; each payload has
\* its own id.
BuildEvent ==
    /\ Len(sel_built) < MaxBuilds
    /\ sel_built' = Append(sel_built,
                           Event([id |-> Len(sel_built) + 1, detail |-> sel_detail]))
    /\ UNCHANGED <<sel_detail, sel_workflow, dispVars, wfVars, gwVars, agVars, ccVars>>

\* self._determine_workflow(event) for an event carrying sel_detail
SelectWorkflow ==
    /\ sel_workflow' = _determine_workflow(sel_detail)
    /\ UNCHANGED <<sel_detail, sel_built, dispVars, wfVars, gwVars, agVars, ccVars>>

SelNext == BuildEvent \/ SelectWorkflow

SelSpec == SelInit /\ [][SelNext]_vars

(***************************************************************************)
(* One incident: EventProcessor._handle_event and                          *)
(* WorkflowEngine.execute_workflow, one step of the model per await.       *)
(***************************************************************************)
\* How an awaited slack.send_notification ends: it returns the message ts,
\* returns None (no client, or SlackApiError caught), or raises.
SendOutcomes == {"ts", "None", "raised"}

\* The 'id' of the handled payloads: EventBridge ids are texts (UUIDs); one
\* shorter than eight characters, one of eight, one longer.
EventIds == {"7f3a9c", "7f3a9c1e", "7f3a9c1e-5b2d"}

\* _handle_event is called with an event (the handler task starts).
HandleIncident ==
    /\ h_pc = "idle"
    /\ wf_pc = "idle"
    /\ \E id \in EventIds, d \in IncidentDetails : h_event' = Event([id |-> id, detail |-> d])
    /\ h_pc' = "notify_new"
    /\ UNCHANGED <<self_workflows, invoked, h_log, wf_pc, wf_name, wf_step, context, wf_result,
                   dispVars, selVars, gwVars, agVars, ccVars>>

\* Mutant: the whole event id is used.
incident_id_of_whole(event) == "INC-" \o event.event_id

\* f"INC-{event.event_id[:8]}"
incident_id_of(event) ==
    LET id == event.event_id IN
    "INC-" \o SubSeq(id, 1, IF Len(id) < 8 THEN Len(id) ELSE 8)

\* _handle_event: the 'new incident' notification, then the workflow is
\* chosen and execute_workflow is called; an exception of the notification
\* leads to the except branch.
NotifyNew ==
    /\ h_pc = "notify_new"
    /\ \E outcome \in SendOutcomes :
          /\ h_log' = Append(h_log, [message |-> "new", outcome |-> outcome,
                                     incident_id |-> incident_id_of(h_event)])
          /\ IF outcome = "raised"
             THEN /\ h_pc' = "except"
                  /\ UNCHANGED <<wf_pc, wf_name>>
             ELSE /\ h_pc' = "execute_workflow"
                  /\ wf_pc' = "called"
                  /\ wf_name' = _determine_workflow(h_event.detail)
    /\ invoked' = invoked \cup {"slack.send_notification"}
    /\ UNCHANGED <<self_workflows, h_event, wf_step, context, wf_result, dispVars, selVars, gwVars, agVars, ccVars>>

\* execute_workflow up to its loop: an unknown workflow name returns at
\* once; otherwise the context is built.
execute_workflow ==
    /\ wf_pc = "called"
    /\ IF wf_name \notin DOMAIN self_workflows
       THEN /\ wf_result' = Dict(<< <<"success", Bool(FALSE)>>,
                                    <<"error", Str("Unknown workflow: " \o wf_name)>> >>)
            /\ wf_pc' = "returned"
            /\ UNCHANGED context
       ELSE /\ context' = [NoContext EXCEPT !.incident_id = incident_id_of(h_event),
                                            !.workflow_name = wf_name]
            /\ wf_pc' = IF self_workflows[wf_name] = <<>> THEN "reasoner" ELSE "loop"
            /\ UNCHANGED wf_result
    /\ UNCHANGED <<self_workflows, invoked, h_pc, h_event, h_log, wf_name, wf_step, dispVars, selVars, gwVars, agVars, ccVars>>

\* `for step in workflow['steps']`: the next iteration begins and awaits
\* self._execute_step(step, context).
BeginStep ==
    /\ wf_pc = "loop"
    /\ wf_step' = wf_step + 1
    /\ wf_pc' = "in_step"
    /\ UNCHANGED <<self_workflows, invoked, h_pc, h_event, h_log, wf_name, context, wf_result,
                   dispVars, selVars, gwVars, agVars, ccVars>>

\* Mutant: the finding is put in front of the list.
AppendFindingFirst(findings, finding) == <<finding>> \o findings

\* context['findings'].append({...})
AppendFinding(findings, finding) == Append(findings, finding)

\* Mutant: an exception of a step is swallowed inside the loop.
after_step_swallow(raised, result, last) ==
    IF raised THEN (IF last THEN "reasoner" ELSE "loop")
    ELSE IF ~Truthy(Get(result, "continue", Bool(TRUE))) THEN "reasoner"
    ELSE IF last THEN "reasoner" ELSE "loop"

\* Mutant: the continue flag of the result is not read.
after_step_no_break(raised, result, last) ==
    IF raised THEN "except"
    ELSE IF last THEN "reasoner" ELSE "loop"

\* Where execute_workflow goes after the awaited step: to its except
\* branch when the step raised, out of the loop when the result says
\* continue = False or the steps are exhausted, else to the next step.
after_step(raised, result, last) ==
    IF raised THEN "except"
    ELSE IF ~Truthy(Get(result, "continue", Bool(TRUE))) THEN "reasoner"
    ELSE IF last THEN "reasoner" ELSE "loop"

\* The except branch of execute_workflow
failure_result(ctx) ==
    Dict(<< <<"success", Bool(FALSE)>>,
            <<"incident_id", Str(ctx.incident_id)>>,
            <<"workflow", Str(ctx.workflow_name)>>,
            <<"error", Str("Exception")>> >>)

\* The awaited step ends with r = [raised, result, context]: its result is
\* appended to the findings and the loop goes on, breaks or is left by the
\* exception.
StepEnds(r) ==
    LET steps == self_workflows[wf_name]
        step == steps[wf_step]
        next == after_step(r.raised, r.result, wf_step = Len(steps))
    IN  /\ context' =
              IF r.raised THEN r.context
              ELSE [r.context EXCEPT !.findings =
                       AppendFinding(@, Dict(<< <<"step", Str(step)>>,
                                                <<"result", r.result>>,
                                                <<"timestamp", Str(utcnow_isoformat)>> >>))]
        /\ IF next = "except"
           THEN /\ wf_result' = failure_result(r.context)
                /\ wf_pc' = "returned"
           ELSE /\ wf_pc' = next
                /\ UNCHANGED wf_result
        /\ UNCHANGED <<self_workflows, h_pc, h_event, h_log, wf_name, wf_step, dispVars, selVars, gwVars, agVars, ccVars>>

\* The awaited _execute_step returns or raises.
EndStep ==
    /\ wf_pc = "in_step"
    /\ LET step == self_workflows[wf_name][wf_step] IN
       /\ invoked' = invoked \cup adapter_operations(step, context)
       /\ \E resp \in AdapterCall(step) : StepEnds(_execute_step(step, context, resp))

\* After the loop: the reasoner, then the success result is returned.
Reasoner ==
    /\ wf_pc = "reasoner"
    /\ LET root_cause == _determine_root_cause(context)
           recommendations == _generate_recommendations(context, Str(root_cause))
       IN  /\ context' = [context EXCEPT !.root_cause = Str(root_cause),
                                         !.recommendations = Strs(recommendations)]
           /\ wf_result' = Dict(<< <<"success", Bool(TRUE)>>,
                                   <<"incident_id", Str(context.incident_id)>>,
                                   <<"workflow", Str(wf_name)>>,
                                   <<"root_cause", Str(root_cause)>>,
                                   <<"recommendations", Strs(recommendations)>>,
                                   <<"findings", List(context.findings)>> >>)
    /\ wf_pc' = "returned"
    /\ UNCHANGED <<self_workflows, invoked, h_pc, h_event, h_log, wf_name, wf_step, dispVars, selVars, gwVars, agVars, ccVars>>

\* _handle_event after execute_workflow returned: the 'resolved' or the
\* 'investigation failed' notification.
NotifyResult ==
    /\ h_pc = "execute_workflow"
    /\ wf_pc = "returned"
    /\ \E outcome \in SendOutcomes :
          /\ h_log' = Append(h_log,
                             [message |-> IF Truthy(Get(wf_result, "success", None))
                                          THEN "resolved" ELSE "failed",
                              outcome |-> outcome,
                              incident_id |-> incident_id_of(h_event)])
          /\ h_pc' = IF outcome = "raised" THEN "except" ELSE "done"
    /\ invoked' = invoked \cup {"slack.send_notification"}
    /\ UNCHANGED <<self_workflows, h_event, wf_pc, wf_name, wf_step, context, wf_result,
                   dispVars, selVars, gwVars, agVars, ccVars>>

\* The except branch of _handle_event: the error notification, whose own
\* exception is passed over.
NotifyError ==
    /\ h_pc = "except"
    /\ \E outcome \in SendOutcomes :
          h_log' = Append(h_log, [message |-> "error", outcome |-> outcome,
                                  incident_id |-> incident_id_of(h_event)])
    /\ h_pc' = "done"
    /\ invoked' = invoked \cup {"slack.send_notification"}
    /\ UNCHANGED <<self_workflows, h_event, wf_pc, wf_name, wf_step, context, wf_result,
                   dispVars, selVars, gwVars, agVars, ccVars>>

WfNext ==
    \/ HandleIncident
    \/ NotifyNew
    \/ execute_workflow
    \/ BeginStep
    \/ EndStep
    \/ Reasoner
    \/ NotifyResult
    \/ NotifyError

WfSpec == Init /\ [][WfNext]_vars

(***************************************************************************)
(* EngineSpec: execute_workflow called on its own, as a unit under test:   *)
(* with any workflow name, with the loaded registry or one that carries a  *)
(* configured workflow naming a step that has no handler, and with step    *)
(* handlers that may be replaced by doubles returning continue = False.    *)
(* No shipped step handler returns a 'continue' key and no shipped         *)
(* workflow names an unknown step, so these cases do not arise in WfSpec.  *)
(***************************************************************************)
configured_workflows ==
    [name \in DOMAIN workflows \cup {"configured_investigation"} |->
        IF name \in DOMAIN workflows THEN workflows[name]
        ELSE <<"identify_pod", "check_disk_usage", "recommend_remediation">>]

WorkflowNames == DOMAIN configured_workflows \cup {"unknown_investigation"}

EngineInit ==
    /\ DispInit
    /\ AgIdle
    /\ CcIdle
    /\ SelIdle
    /\ GwIdle
    /\ self_workflows \in {workflows, configured_workflows}
    /\ invoked = {}
    /\ h_pc = "direct"
    /\ h_event = [event_id |-> "7f3a9c1e"]
    /\ h_log = <<>>
    /\ wf_pc = "idle"
    /\ wf_name = ""
    /\ wf_step = 0
    /\ context = NoContext
    /\ wf_result = None

\* await engine.execute_workflow(workflow_name, incident_id, event)
CallExecuteWorkflow ==
    /\ h_pc = "direct"
    /\ wf_pc = "idle"
    /\ \E name \in WorkflowNames : wf_name' = name
    /\ wf_pc' = "called"
    /\ UNCHANGED <<self_workflows, invoked, h_pc, h_event, h_log, wf_step, context, wf_result,
                   dispVars, selVars, gwVars, agVars, ccVars>>

\* Results of a step handler double.
DoubleResults ==
    {Dict(<< <<"success", Bool(TRUE)>>, <<"continue", Bool(FALSE)>> >>),
     Dict(<< <<"success", Bool(FALSE)>>, <<"continue", Bool(TRUE)>> >>)}

\* The awaited step handler is a double (the handler method of a step of
\* StepIds was replaced): it returns one of DoubleResults and leaves the
\* context alone.
EndStepDouble ==
    /\ wf_pc = "in_step"
    /\ self_workflows[wf_name][wf_step] \in StepIds
    /\ UNCHANGED invoked
    /\ \E result \in DoubleResults : StepEnds(Returns(result, context))

EngineNext ==
    \/ CallExecuteWorkflow
    \/ execute_workflow
    \/ BeginStep
    \/ EndStep
    \/ EndStepDouble
    \/ Reasoner

EngineSpec == EngineInit /\ [][EngineNext]_vars

(***************************************************************************)
(* TranslateSpec: QueryTranslator.translate called on its own: first with  *)
(* any query of Queries (or with None in place of the text), or, on a      *)
(* translator whose table carries the configured template without a        *)
(* group, with a query of ConfiguredQueries; then, when that call has      *)
(* failed, with one of the two queries of FollowUpQueries.                 *)
(***************************************************************************)
query_S4 == "Show me memory usage for pod foo over the last hour"
query_S5 == "Show me request rate for service bar"

FollowUpQueries == {query_S4, query_S5}

TranslateInit ==
    /\ DispInit
    /\ AgIdle
    /\ CcIdle
    /\ SelIdle
    /\ WfIdle
    /\ \/ /\ self_templates = _load_templates
          /\ \E q \in Queries : request = [query |-> Str(q), time_range |-> None]
       \/ /\ self_templates = _load_templates
          /\ request = NoRequest
       \/ /\ self_templates = configured_templates
          /\ \E q \in ConfiguredQueries : request = [query |-> Str(q), time_range |-> None]
    /\ g_pc = "translate"
    /\ translation_result = None
    /\ window = None
    /\ query_result = None
    /\ insights = None
    /\ response = None
    /\ g_log = <<>>

\* await translator.translate(query, {})
Translate ==
    /\ g_pc = "translate"
    /\ translation_result' = translate(self_templates, request.query)
    /\ g_log' = Append(g_log, [asked |-> request, returned |-> translation_result'])
    /\ g_pc' = "translated"
    /\ UNCHANGED <<self_templates, request, window, query_result, insights, response,
                   dispVars, selVars, wfVars, agVars, ccVars>>

\* The caller whose query was not translated goes on to its next query.
NextQuery ==
    /\ g_pc = "translated"
    /\ Len(g_log) = 1
    /\ ~Truthy(Get(translation_result, "success", None))
    /\ \E q \in FollowUpQueries : request' = [query |-> Str(q), time_range |-> None]
    /\ g_pc' = "translate"
    /\ UNCHANGED <<self_templates, translation_result, window, query_result, insights,
                   response, g_log, dispVars, selVars, wfVars, agVars, ccVars>>

TranslateNext == Translate \/ NextQuery

TranslateSpec == TranslateInit /\ [][TranslateNext]_vars

(***************************************************************************)
(* The Prometheus answers and the calls of the gateway under test.         *)
(***************************************************************************)
\* The sample values a series is made of, as Prometheus sends them.
SampleTexts == {"-10", "0", "10", "30"}

\* The series {'metric': ..., 'values': [[1, texts[1]], [2, texts[2]], ...]}
Series(name, texts) ==
    [metric |-> Dict(<< <<"pod", Str(name)>> >>),
     values |-> [i \in 1..Len(texts) |-> <<i, texts[i]>>]]

\* Every list of at most n sample values.
SampleLists(n) == UNION {[1..k -> SampleTexts] : k \in 0..n}

\* result['data']['result'] of the answers to a range query: no series, one
\* series of at most MaxSamples samples, two short series, one series whose
\* value is above a limit of _check_thresholds, and eleven series.
Responses ==
    {<<>>}
        \cup {<<Series("a", texts)>> : texts \in SampleLists(MaxSamples)}
        \cup {<<Series("a", first), Series("b", second)>> :
                  first \in SampleLists(1), second \in SampleLists(1)}
        \cup {<<Series("a", <<"10", "30">>), Series("b", <<"0", "10">>)>>}
        \cup {<<Series("a", <<text>>)>> : text \in {"0.5", "3", "75.5", "82", "87", "95.5", "750", "3500"}}
        \cup {[k \in 1..11 |-> Series(ToString(k), <<"10">>)]}

\* What session.send gives: status 200 with a body, another status, or
\* (status 0) an exception of the transport.
HttpOutcomes(results) ==
    {[status |-> 200, results |-> r] : r \in results}
        \cup {[status |-> 500, results |-> <<>>], [status |-> 0, results |-> <<>>]}

\* datetime.utcnow() of the calls under test, in seconds since the epoch.
EndTimes == {1704067200, 1709251199}

\* The time ranges query_range is called with.
TimeRangeArgs == {"1h", "30m", "1d", "7d", "5m", "15m", "1w", "2h", "10s", "", "h", "1.5h"}

\* The frame of a call query_range(query, time_range).
QueryRangeCall(promql, time_range) ==
    [query |-> promql, time_range |-> time_range, start_time |-> None, end_time |-> None]

\* {'success': False, 'error': error}
failure(error) == Dict(<< <<"success", Bool(FALSE)>>, <<"error", Str(error)>> >>)

\* What query_range returns for the outcome of session.send.
query_range_result(outcome) ==
    IF outcome.status = 0 THEN failure("Exception")
    ELSE IF outcome.status = 200
    THEN LET data == _parse_range_result(outcome.results) IN
         IF data.t = "raise" THEN failure("Exception")
         ELSE Dict(<< <<"success", Bool(TRUE)>>,
                      <<"data", data>>,
                      <<"raw", List(outcome.results)>> >>)
    ELSE failure("Query range failed: " \o ToString(outcome.status))

\* query_range up to the request: end_time = datetime.utcnow() and
\* start_time = self._parse_time_range(time_range, end_time), whose exception
\* is caught by the except clause of query_range.
query_range_begin ==
    /\ g_pc = "query_range"
    /\ \E now \in EndTimes :
           LET start_time == _parse_time_range(window.time_range, Num(now)) IN
           IF start_time.t = "raise"
           THEN /\ query_result' = failure("Exception")
                /\ g_pc' = "queried"
                /\ UNCHANGED window
           ELSE /\ window' = [window EXCEPT !.start_time = start_time, !.end_time = Num(now)]
                /\ g_pc' = "send"
                /\ UNCHANGED query_result
    /\ UNCHANGED <<self_templates, request, translation_result, insights, response, g_log,
                   dispVars, selVars, wfVars, agVars, ccVars>>

\* query_range from session.send on: the result for some outcome over
\* results.
Answered(results) ==
    \E outcome \in HttpOutcomes(results) : query_result' = query_range_result(outcome)

\* query_range from session.send on, answered with any of Responses.
query_range_send ==
    /\ g_pc = "send"
    /\ Answered(Responses)
    /\ g_pc' = "queried"
    /\ UNCHANGED <<self_templates, request, translation_result, window, insights, response,
                   g_log, dispVars, selVars, wfVars, agVars, ccVars>>

(***************************************************************************)
(* ClientSpec: PrometheusClient.query_range called on its own with any     *)
(* time range of TimeRangeArgs, at either time of EndTimes, and answered   *)
(* with any outcome over Responses.                                        *)
(***************************************************************************)
ClientInit ==
    /\ DispInit
    /\ AgIdle
    /\ CcIdle
    /\ SelIdle
    /\ WfIdle
    /\ self_templates = _load_templates
    /\ request = NoRequest
    /\ translation_result = None
    /\ \E time_range \in TimeRangeArgs : window = QueryRangeCall("up", time_range)
    /\ g_pc = "query_range"
    /\ query_result = None
    /\ insights = None
    /\ response = None
    /\ g_log = <<>>

ClientNext == query_range_begin \/ query_range_send

ClientSpec == ClientInit /\ [][ClientNext]_vars

(***************************************************************************)
(* GenerateSpec: InsightGenerator.generate called on its own, with the     *)
(* parsed result of any response of Responses, with a result to which the  *)
(* caller has added anomalies, and with data that is no parsed result.     *)
(***************************************************************************)
\* The queries of the calls: each names the metrics of some, or none, of the
\* rules of _check_thresholds.
InsightQueries ==
    {"Show me memory usage for pod foo", "CPU usage of pod foo", "request latency",
     "Request DURATION", "Memory and CPU and error rate", "is it up"}

\* Parsed results with anomalies.
AnomalyData ==
    {Dict(_parse_range_result(results).v \o << <<"anomalies", anomalies>> >>) :
         results \in {<<Series("a", <<"10", "30">>)>>,
                      [k \in 1..11 |-> Series(ToString(k), <<"10", "95.5">>)]},
         anomalies \in {List(<<>>), List(<<Num(1), Num(2)>>)}}

\* Data that neither parser returns: a field that is no number, anomalies
\* without a length, no dict at all; and the dict without any field.
MalformedData ==
    {Dict(<< <<"current_value", None>> >>),
     Dict(<< <<"current_value", Num(5)>>, <<"max_value", Str("30")>> >>),
     Dict(<< <<"current_value", Num(5)>>, <<"max_value", Num(30)>>, <<"min_value", None>> >>),
     Dict(<< <<"current_value", Num(5)>>, <<"anomalies", Num(3)>> >>),
     Dict(<< <<"current_value", Num(5)>>, <<"series_count", None>> >>),
     None}

\* Parsed results whose current value sits on a threshold.
ThresholdData ==
    {_parse_range_result(<<Series("a", <<text>>)>>) :
         text \in {"1", "5", "70", "80", "85", "90", "500", "1000", "3000"}}

GenerateData ==
    {_parse_range_result(results) : results \in Responses}
        \cup AnomalyData \cup MalformedData \cup ThresholdData \cup {Dict(<<>>)}

GenerateInit ==
    /\ DispInit
    /\ AgIdle
    /\ CcIdle
    /\ SelIdle
    /\ WfIdle
    /\ self_templates = _load_templates
    /\ \E q \in InsightQueries : request = [query |-> Str(q), time_range |-> None]
    /\ translation_result = Dict(<< <<"success", Bool(TRUE)>>, <<"promql", Str("up")>> >>)
    /\ window = None
    /\ query_result = None
    /\ g_pc = "data"
    /\ insights = None
    /\ response = None
    /\ g_log = <<>>

\* The caller of generate has its data.
ObtainData ==
    /\ g_pc = "data"
    /\ \E data \in GenerateData :
           query_result' = Dict(<< <<"success", Bool(TRUE)>>, <<"data", data>> >>)
    /\ g_pc' = "generate"
    /\ UNCHANGED <<self_templates, request, translation_result, window, insights, response,
                   g_log, dispVars, selVars, wfVars, agVars, ccVars>>

\* await insight_generator.generate(query=request.query, promql=promql,
\* data=query_result['data'])
Generate ==
    /\ g_pc = "generate"
    /\ insights' = Strs(generate(request.query.v, Get(translation_result, "promql", None).v,
                                 Get(query_result, "data", None)))
    /\ g_pc' = "generated"
    /\ UNCHANGED <<self_templates, request, translation_result, window, query_result,
                   response, g_log, dispVars, selVars, wfVars, agVars, ccVars>>

GenerateNext == ObtainData \/ Generate

GenerateSpec == GenerateInit /\ [][GenerateNext]_vars

(***************************************************************************)
(* GatewaySpec: one POST /api/v1/query, from the request to the response.  *)
(***************************************************************************)
\* QueryResponse(success=..., ...): the fields left out are None.
QueryResponse(success, promql_query, data, insight_list, error) ==
    [success |-> success, promql_query |-> promql_query, data |-> data,
     insights |-> insight_list, error |-> error]

\* The query texts of the requests.
GatewayQueries ==
    {query_S4, query_S5, "CPU usage of pod foo", "memory of pods", "error request rate",
     "what is up", ""}

\* The time_range field of the requests: absent, or a text.
GatewayTimeRanges == {None, Str("30m"), Str("soon"), Str("")}

\* The answers of Prometheus to the requests.
GatewayResponses ==
    {<<>>, <<Series("a", <<>>)>>, <<Series("a", <<"10", "10", "30", "30">>)>>,
     <<Series("a", <<"-10", "-10">>)>>, <<Series("a", <<"95.5">>)>>,
     <<Series("a", <<"0">>), Series("b", <<"0">>)>>,
     [k \in 1..11 |-> Series(ToString(k), <<"10">>)]}

GatewayInit ==
    /\ DispInit
    /\ AgIdle
    /\ CcIdle
    /\ SelIdle
    /\ WfIdle
    /\ self_templates = _load_templates
    /\ \E q \in GatewayQueries, time_range \in GatewayTimeRanges :
           request = [query |-> Str(q), time_range |-> time_range]
    /\ g_pc = "translate"
    /\ translation_result = None
    /\ window = None
    /\ query_result = None
    /\ insights = None
    /\ response = None
    /\ g_log = <<>>

\* query(): after the translation, the failure response or the call of
\* query_range with time_range = request.time_range or
\* translation_result.get('time_range', '1h').
query_translated ==
    /\ g_pc = "translated"
    /\ IF ~Truthy(Get(translation_result, "success", None))
       THEN /\ response' = QueryResponse(Bool(FALSE), None, None, None,
                               Get(translation_result, "error", Str("Failed to translate query")))
            /\ g_pc' = "responded"
            /\ UNCHANGED window
       ELSE /\ window' = QueryRangeCall(
                             Get(translation_result, "promql", None).v,
                             (IF Truthy(request.time_range) THEN request.time_range
                              ELSE Get(translation_result, "time_range", Str("1h"))).v)
            /\ g_pc' = "query_range"
            /\ UNCHANGED response
    /\ UNCHANGED <<self_templates, request, translation_result, query_result, insights, g_log,
                   dispVars, selVars, wfVars, agVars, ccVars>>

\* query_range from session.send on, inside a request: answered with any
\* of GatewayResponses.
gateway_send ==
    /\ g_pc = "send"
    /\ Answered(GatewayResponses)
    /\ g_pc' = "queried"
    /\ UNCHANGED <<self_templates, request, translation_result, window, insights, response,
                   g_log, dispVars, selVars, wfVars, agVars, ccVars>>

\* Mutant: generate is called whatever query_range returned.
query_executed_unchecked ==
    /\ g_pc = "queried"
    /\ g_pc' = "generate"
    /\ UNCHANGED <<self_templates, request, translation_result, window, query_result, insights,
                   response, g_log, dispVars, selVars, wfVars, agVars, ccVars>>

\* query(): after query_range, the failure response or the call of
\* generate.
query_executed ==
    /\ g_pc = "queried"
    /\ IF ~Truthy(Get(query_result, "success", None))
       THEN /\ response' = QueryResponse(Bool(FALSE), None, None, None,
                               Get(query_result, "error", Str("Query execution failed")))
            /\ g_pc' = "responded"
       ELSE /\ g_pc' = "generate"
            /\ UNCHANGED response
    /\ UNCHANGED <<self_templates, request, translation_result, window, query_result, insights,
                   g_log, dispVars, selVars, wfVars, agVars, ccVars>>

\* query(): the success response.
query_respond ==
    /\ g_pc = "generated"
    /\ response' = QueryResponse(Bool(TRUE), Get(translation_result, "promql", None),
                                 Get(query_result, "data", None), insights, None)
    /\ g_pc' = "responded"
    /\ UNCHANGED <<self_templates, request, translation_result, window, query_result, insights,
                   g_log, dispVars, selVars, wfVars, agVars, ccVars>>

GatewayNext ==
    \/ Translate
    \/ query_translated
    \/ query_range_begin
    \/ gateway_send
    \/ query_executed
    \/ Generate
    \/ query_respond

GatewaySpec == GatewayInit /\ [][GatewayNext]_vars

(***************************************************************************)
(* GatewayFaultSpec: the requests of GatewaySpec served by a gateway       *)
(* whose components may raise.  The shipped translator, client and         *)
(* generator catch what they raise, so the except clause of query() is     *)
(* reached only with a component that raises out of its call.              *)
(***************************************************************************)

\* query(): an awaited component raises, and the except clause returns
\* QueryResponse(success=False, error=str(e)).
query_except ==
    /\ g_pc \in {"translate", "query_range", "send", "generate"}
    /\ response' = QueryResponse(Bool(FALSE), None, None, None, Str("Exception"))
    /\ g_pc' = "responded"
    /\ UNCHANGED <<self_templates, request, translation_result, window, query_result, insights,
                   g_log, dispVars, selVars, wfVars, agVars, ccVars>>

GatewayFaultNext == GatewayNext \/ query_except

GatewayFaultSpec == GatewayInit /\ [][GatewayFaultNext]_vars

(***************************************************************************)
(* AdapterSpec: one query of the agent's metrics adapter against the       *)
(* gateway: the request carries no time_range, the gateway serves it as in *)
(* GatewayFaultSpec, and PrometheusMCPClient.query receives the response,  *)
(* another status from something in between, or no response at all.       *)
(***************************************************************************)

\* The JSON body FastAPI sends for a QueryResponse: all five fields, those
\* that are None as null.
json_body(r) ==
    Dict(<< <<"success", r.success>>, <<"promql_query", r.promql_query>>,
            <<"data", r.data>>, <<"insights", r.insights>>, <<"error", r.error>> >>)

AdapterInit ==
    /\ GatewayInit
    /\ request.time_range = None

\* PrometheusMCPClient.query from session.post on, once the gateway has
\* answered the request.
mcp_receive ==
    /\ g_pc = "responded"
    /\ \E outcome \in {[status |-> 200, body |-> json_body(response)],
                       [status |-> 502, body |-> None],
                       [status |-> 0, body |-> None]} :
          mcp_answer' = [status |-> outcome.status, body |-> outcome.body,
                         metrics |-> mcp_query(outcome)]
    /\ g_pc' = "received"
    /\ UNCHANGED <<agent_running, event_processor, main_pc, stop_calls,
                   shutdown_notifications, session, sessions_created,
                   self_templates, request, translation_result, window, query_result,
                   insights, response, g_log, dispVars, selVars, wfVars, ccVars>>

AdapterNext == GatewayFaultNext \/ mcp_receive

AdapterSpec == AdapterInit /\ [][AdapterNext]_vars

(***************************************************************************)
(* AgentSpec: one run of main(): initialize, start, the main loop, a       *)
(* termination signal at any moment, and stop() from its three callers;    *)
(* meanwhile events are submitted to the event processor, dispatched and   *)
(* handled, and the running handlers query the metrics adapter.            *)
(***************************************************************************)
AgentInit ==
    /\ DispInit
    /\ CcIdle
    /\ SelIdle
    /\ WfIdle
    /\ GwIdle
    /\ agent_running = FALSE
    /\ event_processor = FALSE
    /\ main_pc = "initialize"
    /\ stop_calls = [caller \in StopCallers |-> "none"]
    /\ shutdown_notifications = 0
    /\ session = "None"
    /\ sessions_created = 0
    /\ mcp_answer = NoAnswer

\* main(): `await agent.initialize()`, which sets the event processor or
\* re-raises what kubernetes.initialize() raised; main() then logs, calls
\* sys.exit(1), and its finally clause calls agent.stop().
initialize ==
    /\ main_pc = "initialize"
    /\ \E raised \in BOOLEAN :
          IF raised
          THEN /\ main_pc' = "finally"
               /\ stop_calls' = [stop_calls EXCEPT !["main"] = "called"]
               /\ UNCHANGED event_processor
          ELSE /\ main_pc' = "start"
               /\ event_processor' = TRUE
               /\ UNCHANGED stop_calls
    /\ UNCHANGED <<agent_running, shutdown_notifications, session, sessions_created, mcp_answer,
                   dispVars, selVars, wfVars, gwVars, ccVars>>

\* DevOpsAgent.start up to the startup notification: running = True and
\* event_processor.start().
agent_start ==
    /\ main_pc = "start"
    /\ agent_running' = TRUE
    /\ running' = TRUE
    /\ processing_task' = "alive"
    /\ main_pc' = "startup_notification"
    /\ UNCHANGED <<event_processor, stop_calls, shutdown_notifications, session,
                   sessions_created, mcp_answer, event_queue, active_tasks, submitted, handler, stop_pc,
                   put_result, selVars, wfVars, gwVars, ccVars>>

\* DevOpsAgent.start: the startup notification returns and the main loop
\* begins, or it raises and the except clause calls self.stop().
startup_notification ==
    /\ main_pc = "startup_notification"
    /\ \E outcome \in NotifyOutcomes :
          IF outcome = "raised"
          THEN /\ main_pc' = "start_except"
               /\ stop_calls' = [stop_calls EXCEPT !["start"] = "called"]
          ELSE /\ main_pc' = "main_loop"
               /\ UNCHANGED stop_calls
    /\ UNCHANGED <<agent_running, event_processor, shutdown_notifications, session,
                   sessions_created, mcp_answer, dispVars, selVars, wfVars, gwVars, ccVars>>

\* DevOpsAgent.start: `while self.running` ends, start() returns, and the
\* finally clause of main() calls agent.stop().
main_loop_exit ==
    /\ main_pc = "main_loop"
    /\ ~agent_running
    /\ main_pc' = "finally"
    /\ stop_calls' = [stop_calls EXCEPT !["main"] = "called"]
    /\ UNCHANGED <<agent_running, event_processor, shutdown_notifications, session,
                   sessions_created, mcp_answer, dispVars, selVars, wfVars, gwVars, ccVars>>

\* DevOpsAgent.start: the stop() of the except clause has returned, start()
\* returns, and the finally clause of main() calls agent.stop().
start_except_return ==
    /\ main_pc = "start_except"
    /\ stop_calls["start"] = "returned"
    /\ main_pc' = "finally"
    /\ stop_calls' = [stop_calls EXCEPT !["main"] = "called"]
    /\ UNCHANGED <<agent_running, event_processor, shutdown_notifications, session,
                   sessions_created, mcp_answer, dispVars, selVars, wfVars, gwVars, ccVars>>

\* main(): the stop() of the finally clause has returned; asyncio.run
\* cancels the tasks that are left and closes the loop.
main_exit ==
    /\ main_pc = "finally"
    /\ stop_calls["main"] = "returned"
    /\ main_pc' = "exited"
    /\ UNCHANGED <<agent_running, event_processor, stop_calls, shutdown_notifications,
                   session, sessions_created, mcp_answer, dispVars, selVars, wfVars, gwVars, ccVars>>

\* DevOpsAgent.handle_signal: asyncio.create_task(self.stop()).
handle_signal ==
    /\ main_pc # "exited"
    /\ stop_calls["signal"] = "none"
    /\ stop_calls' = [stop_calls EXCEPT !["signal"] = "called"]
    /\ UNCHANGED <<agent_running, event_processor, main_pc, shutdown_notifications, session,
                   sessions_created, mcp_answer, dispVars, selVars, wfVars, gwVars, ccVars>>

\* DevOpsAgent.stop up to its first await: running = False and, with an
\* event processor, EventProcessor.stop up to its await (the flag cleared,
\* the loop task cancelled).
agent_stop(caller) ==
    /\ main_pc # "exited"
    /\ stop_calls[caller] = "called"
    /\ agent_running' = FALSE
    /\ IF event_processor
       THEN /\ running' = FALSE
            /\ processing_task' =
                  IF processing_task = "alive" THEN "cancelling" ELSE processing_task
            /\ stop_calls' = [stop_calls EXCEPT ![caller] = "awaiting"]
       ELSE /\ stop_calls' = [stop_calls EXCEPT ![caller] = "notify"]
            /\ UNCHANGED <<running, processing_task>>
    /\ UNCHANGED <<event_processor, main_pc, shutdown_notifications, session,
                   sessions_created, mcp_answer, event_queue, active_tasks, submitted, handler, stop_pc,
                   put_result, selVars, wfVars, gwVars, ccVars>>

AgentStop == \E caller \in StopCallers : agent_stop(caller)

\* EventProcessor.stop after `await self.processing_task` (CancelledError
\* of a cancelled task is passed over; a task that was never created is not
\* awaited).
event_processor_stopped(caller) ==
    /\ main_pc # "exited"
    /\ stop_calls[caller] = "awaiting"
    /\ processing_task \in {"none", "cancelled", "finished"}
    /\ stop_calls' = [stop_calls EXCEPT ![caller] = "notify"]
    /\ UNCHANGED <<agent_running, event_processor, main_pc, shutdown_notifications, session,
                   sessions_created, mcp_answer, dispVars, selVars, wfVars, gwVars, ccVars>>

EventProcessorStopped == \E caller \in StopCallers : event_processor_stopped(caller)

\* DevOpsAgent.stop: the shutdown notification, whose exception is logged
\* and passed over.
shutdown_notification(caller) ==
    /\ main_pc # "exited"
    /\ stop_calls[caller] = "notify"
    /\ \E outcome \in NotifyOutcomes :
          shutdown_notifications' =
              IF outcome = "returned" THEN shutdown_notifications + 1
              ELSE shutdown_notifications
    /\ stop_calls' = [stop_calls EXCEPT ![caller] = "returned"]
    /\ UNCHANGED <<agent_running, event_processor, main_pc, session, sessions_created, mcp_answer,
                   dispVars, selVars, wfVars, gwVars, ccVars>>

ShutdownNotification == \E caller \in StopCallers : shutdown_notification(caller)

\* PrometheusMCPClient._get_session: the session of the adapter after the
\* call, and the number of sessions constructed.
_get_session ==
    IF session \in {"None", "closed"}
    THEN [session |-> "open", created |-> sessions_created + 1]
    ELSE [session |-> session, created |-> sessions_created]

\* PrometheusMCPClient.close: the session of the adapter after the call.
close == IF session = "open" THEN "closed" ELSE session

\* PrometheusMCPClient.query, awaited by a step of a running incident.
AdapterQuery ==
    /\ main_pc # "exited"
    /\ RunningIds # {}
    /\ session' = _get_session.session
    /\ sessions_created' = _get_session.created
    /\ UNCHANGED <<agent_running, event_processor, main_pc, stop_calls,
                   shutdown_notifications, mcp_answer, dispVars, selVars, wfVars, gwVars, ccVars>>

\* The event processor at work while the loop of asyncio.run is open.
AgentSubmit == event_processor /\ main_pc # "exited" /\ submitted < MaxIncidents /\ Submit
AgentDispatch == main_pc # "exited" /\ _process_events
AgentLoopCancelled == main_pc # "exited" /\ _process_events_cancelled
AgentHandleEvent == main_pc # "exited" /\ HandleEvent

AgentNext ==
    \/ initialize
    \/ agent_start
    \/ startup_notification
    \/ main_loop_exit
    \/ start_except_return
    \/ main_exit
    \/ handle_signal
    \/ AgentStop
    \/ EventProcessorStopped
    \/ ShutdownNotification
    \/ AdapterQuery
    \/ AgentSubmit
    \/ AgentDispatch
    \/ AgentLoopCancelled
    \/ AgentHandleEvent

AgentSpec == AgentInit /\ [][AgentNext]_vars

(***************************************************************************)
(* Properties of the event intake and the priority dispatcher.             *)
(***************************************************************************)
\* The rank under which the event held by a handler task was queued.
RankOf(event) == EventPriority[event.priority]

\* The ids whose handler task is created by this step.
Started(id) == handler[id].state = "none" /\ handler'[id].state = "running"

\* C1: in every reachable state the number of _handle_event tasks that
\* have been started and have not finished is at most
\* max_concurrent_events.
C1_AtMostCapHandlers == Cardinality(RunningIds) <= max_concurrent_events

\* The cap is reached while another event waits in the queue.
C1_Witness ==
    /\ Cardinality(RunningIds) = max_concurrent_events
    /\ event_queue # <<>>
    /\ processing_task = "alive"

\* C2: every event passed to process_event is, at every later point, in
\* the queue, held by a running handler, completed by its handler, or
\* cancelled at shutdown; none is dropped.
C2_EveryEventAccountedFor ==
    \A id \in Ids :
        \/ id \in QueuedIds
        \/ handler[id].state \in {"running", "resolved", "failed", "errored", "cancelled"}

\* C3: whenever the dispatcher dequeues an event (creates its handler), the
\* rank of that event is at most the rank of every event still in the
\* queue.
C3_DequeuesLowestRank ==
    [][\A id \in Ids :
          Started(id) =>
             \A i \in 1..Len(event_queue') :
                 RankOf(handler'[id].event) <= event_queue'[i].rank]_vars

\* C4: enqueuing an event whose rank is already present in the queue
\* succeeds, and events of equal rank are dequeued in the order they were
\* inserted (ids are given in insertion order).
C4_EqualRankFifo ==
    [][/\ submitted' = submitted + 1 => put_result' = "ok"
       /\ \A id \in Ids :
             Started(id) =>
                \A i \in 1..Len(event_queue') :
                    event_queue'[i].rank = RankOf(handler'[id].event)
                       => event_queue'[i].event.event_id > id]_vars

\* C5: with the dispatcher running and not stopped, every submitted event
\* is eventually dequeued and its handler completes.  Stated on the states
\* where nothing is left to do: the loop is alive, the queue is empty and
\* no handler is running; there every submitted event must have completed.
C5_AllSubmittedComplete ==
    (processing_task = "alive" /\ event_queue = <<>> /\ RunningIds = {})
        => \A id \in Ids : handler[id].state \in {"resolved", "failed", "errored"}

\* C6: a handler failure never stops the dispatcher: no exception leaves a
\* handler task (a failure ends it in the except branch, whose own
\* notification failure is swallowed), and while stop() has not been called
\* the loop task stays alive with the flag set, whatever handlers failed.
C6_HandlerFailureContained ==
    /\ \A id \in Ids : handler[id].state # "raised"
    /\ (processing_task # "none" /\ stop_pc = "idle")
          => (processing_task = "alive" /\ running)

\* Two handlers have failed and, with a cap of two handlers, a third event
\* has been dispatched since and is being handled.
C6_Witness ==
    /\ Cardinality({id \in Ids : handler[id].state = "errored"}) >= max_concurrent_events
    /\ RunningIds # {}
    /\ processing_task = "alive"

\* C7: in the state where stop() has returned, no _handle_event task is
\* still running.
C7_StopWaitsForHandlers == stop_pc = "returned" => RunningIds = {}

\* C8: after stop() is called the dispatcher starts no new handler, and
\* stop() cancels no handler that is in flight.
C8_NoNewHandlerAfterStop ==
    [][stop_pc # "idle" =>
          \A id \in Ids :
              /\ ~Started(id)
              /\ handler'[id].state # "cancelled"]_vars

(***************************************************************************)
(* Properties of the pure selection functions.                             *)
(***************************************************************************)
HasAny(name, keywords) == \E kw \in keywords : Contains(name, kw)

\* C9: priority is CRITICAL when state.value is "ALARM" and the lowercased
\* alarmName contains critical, oom, node or down; HIGH when the state is
\* "ALARM" otherwise; MEDIUM for every other state value; never LOW; and
\* events built from payloads with the same detail (and different ids) get
\* the same priority.
C9_PriorityRule ==
    \A i \in 1..Len(sel_built) :
        LET b == sel_built[i]
            name == Lower(b.detail.alarmName)
            keyword == HasAny(name, {kw_critical, kw_oom, kw_node, kw_down})
        IN  /\ b.priority \in PriorityNames \ {"LOW"}
            /\ b.priority = "CRITICAL" <=> (b.detail.state = "ALARM" /\ keyword)
            /\ b.priority = "HIGH" <=> (b.detail.state = "ALARM" /\ ~keyword)
            /\ b.priority = "MEDIUM" <=> b.detail.state # "ALARM"
            /\ \A j \in 1..Len(sel_built) : sel_built[j].priority = b.priority

\* Two events were built from an ALARM payload whose name spells a keyword
\* in upper case.
C9_Witness ==
    /\ Len(sel_built) = MaxBuilds
    /\ sel_detail.state = "ALARM"
    /\ Contains(sel_detail.alarmName, <<"O","O","M">>)
    /\ sel_built[1].priority = "CRITICAL"

\* The keyword groups of _determine_workflow in the order of the claim.
WorkflowGroups ==
    <<[keywords |-> {kw_memory, kw_oom}, workflow |-> "memory_leak_investigation"],
      [keywords |-> {kw_cpu, kw_throttl}, workflow |-> "high_cpu_investigation"],
      [keywords |-> {kw_latency, kw_response}, workflow |-> "high_latency_investigation"],
      [keywords |-> {kw_node, kw_pressure}, workflow |-> "node_pressure_investigation"],
      [keywords |-> {kw_restart, kw_crash}, workflow |-> "pod_crash_investigation"]>>

\* C10: the workflow is that of the first group, in the order memory|oom,
\* cpu|throttl, latency|response, node|pressure, restart|crash, one of whose
\* keywords occurs in the lowercased alarm name; generic_investigation when
\* no group matches; and it is always a key of the workflow registry.
C10_FirstHitWins ==
    sel_workflow # "unset" =>
        LET name == Lower(sel_detail.alarmName)
            hits == {g \in 1..Len(WorkflowGroups) : HasAny(name, WorkflowGroups[g].keywords)}
        IN  /\ sel_workflow \in DOMAIN workflows
            /\ hits = {} => sel_workflow = "generic_investigation"
            /\ \A g \in hits :
                  (\A h \in hits : g <= h) => sel_workflow = WorkflowGroups[g].workflow

\* A name that matches the memory group and the cpu group was given the
\* workflow of the earlier group.
C10_Witness ==
    /\ HasAny(Lower(sel_detail.alarmName), {kw_memory, kw_oom})
    /\ HasAny(Lower(sel_detail.alarmName), {kw_cpu, kw_throttl})
    /\ sel_workflow = "memory_leak_investigation"

(***************************************************************************)
(* Properties of the workflow engine and of one incident.                  *)
(***************************************************************************)
\* The value returned by execute_workflow is a success result.
Succeeded == wf_pc = "returned" /\ Truthy(Get(wf_result, "success", None))

\* result['root_cause'] of a success result
RootCause == Get(wf_result, "root_cause", None).v

\* Some finding of the context has result[key] = True.
SomeFindingTrue(key) ==
    \E i \in 1..Len(context.findings) :
        LET value == Get(Get(context.findings[i], "result", None), key, None) IN
        value.t = "bool" /\ value.v

\* The steps of the findings of the context, in order.
FindingSteps == [i \in 1..Len(context.findings) |-> Get(context.findings[i], "step", None).v]

\* C11: for a memory_leak_investigation the root cause is "Memory leak
\* causing OOMKill events" exactly when some finding has oom_kill_detected =
\* true (the pod-events adapter returned an event whose reason contains
\* OOMKill); otherwise "Increasing memory usage pattern detected" exactly
\* when some finding has memory_leak_likely = true; otherwise "Memory
\* pressure observed".
C11_MemoryLeakRule ==
    (Succeeded /\ wf_name = "memory_leak_investigation") =>
        LET oom == SomeFindingTrue("oom_kill_detected")
            leak == SomeFindingTrue("memory_leak_likely")
        IN  /\ RootCause = "Memory leak causing OOMKill events" <=> oom
            /\ RootCause = "Increasing memory usage pattern detected" <=> (~oom /\ leak)
            /\ RootCause = "Memory pressure observed" <=> (~oom /\ ~leak)

\* C12: for a high_cpu_investigation the root cause is "CPU throttling due
\* to insufficient limits" if and only if the check_cpu_throttling finding
\* has throttling_detected = true; otherwise it is "High CPU utilization".
C12_HighCpuRule ==
    (Succeeded /\ wf_name = "high_cpu_investigation") =>
        LET throttling == SomeFindingTrue("throttling_detected") IN
        /\ RootCause = "CPU throttling due to insufficient limits" <=> throttling
        /\ RootCause = "High CPU utilization" <=> ~throttling

\* Some finding of the context carries a bottleneck that is not None.
BottleneckFound ==
    \E i \in 1..Len(context.findings) :
        LET result == Get(context.findings[i], "result", None) IN
        HasKey(result, "bottleneck") /\ Get(result, "bottleneck", None).t # "none"

\* C13: for a high_latency_investigation the root cause is "Latency caused
\* by resource constraints" when a finding has resource_constrained = true;
\* otherwise "Bottleneck in downstream service" when analyze_traces found a
\* bottleneck that is not null; otherwise "Elevated response times".
C13_HighLatencyRule ==
    (Succeeded /\ wf_name = "high_latency_investigation") =>
        LET constrained == SomeFindingTrue("resource_constrained") IN
        /\ RootCause = "Latency caused by resource constraints" <=> constrained
        /\ RootCause = "Bottleneck in downstream service" <=> (~constrained /\ BottleneckFound)
        /\ RootCause = "Elevated response times" <=> (~constrained /\ ~BottleneckFound)

\* The workflow being executed is in the registry (its context was built).
Executing == wf_pc \in {"loop", "in_step", "reasoner", "returned"} /\ wf_name \in DOMAIN self_workflows

\* result of the i-th finding of the context
FindingResult(i) == Get(context.findings[i], "result", None)

\* C14: the steps of one incident run one after another in the order of the
\* workflow definition: the findings are a prefix of the workflow's step
\* list, the result of a step is appended before the next step is begun,
\* and a success result returns these findings.
C14_FindingsFollowSteps ==
    Executing =>
        LET steps == self_workflows[wf_name] IN
        /\ Len(context.findings) <= Len(steps)
        /\ \A i \in 1..Len(context.findings) : FindingSteps[i] = steps[i]
        /\ wf_pc = "in_step" => Len(context.findings) = wf_step - 1
        /\ wf_pc \in {"loop", "reasoner"} => Len(context.findings) = wf_step
        /\ Succeeded => Get(wf_result, "findings", None) = List(context.findings)

\* An incident of the agent ran all six steps of its workflow in order.
C14_Witness ==
    /\ Succeeded
    /\ h_pc = "execute_workflow"
    /\ FindingSteps = self_workflows[wf_name]
    /\ Len(FindingSteps) = 6

\* A step that was begun has ended without a finding: it raised.
StepRaised == Executing /\ wf_pc # "in_step" /\ Len(context.findings) < wf_step

\* C15: when a step raises, the exception is caught, no further step is
\* begun, the reasoner does not run, and the value returned has success =
\* False and an error and no root_cause and no recommendations.
C15_StepExceptionFailsIncident ==
    StepRaised =>
        /\ wf_pc = "returned"
        /\ Len(context.findings) = wf_step - 1
        /\ context.root_cause = None
        /\ ~Truthy(Get(wf_result, "success", None))
        /\ HasKey(wf_result, "error")
        /\ ~HasKey(wf_result, "root_cause")
        /\ ~HasKey(wf_result, "recommendations")

\* check_oom_events, the third step of the memory-leak workflow, raised
\* while the agent handled an incident.
C15_Witness ==
    /\ StepRaised
    /\ h_pc = "execute_workflow"
    /\ wf_name = "memory_leak_investigation"
    /\ wf_step = 3
    /\ wf_pc = "returned"

\* The result of the i-th finding says continue = False.
SaysStop(i) == ~Truthy(Get(FindingResult(i), "continue", Bool(TRUE)))

\* C16: when a step returns continue = False its result is still appended
\* to the findings, no later step is executed, and the reasoner still runs:
\* the value returned has success = True, a root cause and recommendations.
C16_ContinueFalseSkipsToReasoner ==
    \A i \in 1..Len(context.findings) :
        SaysStop(i) =>
            /\ i = Len(context.findings)
            /\ wf_step = i
            /\ wf_pc \in {"reasoner", "returned"}
            /\ wf_pc = "returned" =>
                  /\ Succeeded
                  /\ Get(wf_result, "root_cause", None).t = "str"
                  /\ Truthy(Get(wf_result, "recommendations", None))
                  /\ Get(wf_result, "findings", None) = List(context.findings)

\* A workflow of six steps was stopped by its second step and returned a
\* success result.
C16_Witness ==
    /\ Succeeded
    /\ Len(context.findings) = 2
    /\ SaysStop(2)
    /\ Len(self_workflows[wf_name]) = 6

\* C17: a step id without a handler is not fatal: once the step has ended,
\* a failure result (success = False with an error) is recorded as its
\* finding, and execute_workflow goes on with the next step and reaches the
\* reasoner.
C17_UnknownStepRecordsFailure ==
    Executing =>
        \A k \in 1..wf_step :
            (self_workflows[wf_name][k] \notin StepIds /\ (k < wf_step \/ wf_pc # "in_step")) =>
                /\ Len(context.findings) >= k
                /\ FindingSteps[k] = self_workflows[wf_name][k]
                /\ ~Truthy(Get(FindingResult(k), "success", None))
                /\ HasKey(FindingResult(k), "error")
                /\ wf_step = k => (wf_pc \in {"loop", "reasoner"} \/ Succeeded)

\* The configured workflow, whose second step has no handler, ran its third
\* step and returned a success result.
C17_Witness ==
    /\ Succeeded
    /\ wf_name = "configured_investigation"
    /\ Len(context.findings) = 3
    /\ FindingSteps[2] \notin StepIds
    /\ FindingSteps[3] = "recommend_remediation"

\* C18: when execute_workflow is called with a workflow name that is not in
\* the registry, a failure finding is recorded: the value returned carries
\* findings and they are not empty.
C18_UnknownWorkflowRecordsFinding ==
    (wf_pc = "returned" /\ wf_name \notin DOMAIN self_workflows) =>
        /\ HasKey(wf_result, "findings")
        /\ Truthy(Get(wf_result, "findings", None))

\* The recommendations of the finding of the finalizer step
\* recommend_remediation, if that step has run.
FinalizerRecommendations ==
    {Get(FindingResult(i), "recommendations", None) :
        i \in {j \in 1..Len(context.findings) : FindingSteps[j] = "recommend_remediation"}}

\* C19: every success result carries the fixed, non-empty recommendation
\* list of its workflow (for the memory-leak workflow the four texts of the
\* specification, in order), whatever the findings and the root cause: the
\* list is the one the finalizer step computed before any root cause was
\* known; and whenever root_cause is set the recommendations are not empty.
C19_FixedRecommendations ==
    /\ Succeeded =>
          LET recommendations == Get(wf_result, "recommendations", None) IN
          /\ recommendations.t = "list"
          /\ Len(recommendations.v) > 0
          /\ \A r \in FinalizerRecommendations : r = recommendations
          /\ wf_name = "memory_leak_investigation" =>
                recommendations = Strs(<<"Restart pod to clear memory",
                                         "Increase memory limit to 512Mi",
                                         "Review application code for memory leaks",
                                         "Enable memory profiling">>)
    /\ context.root_cause # None => Truthy(context.recommendations)

\* A memory-leak incident returned a success result after its finalizer
\* step had recorded recommendations.
C19_Witness ==
    /\ Succeeded
    /\ h_pc = "execute_workflow"
    /\ wf_name = "memory_leak_investigation"
    /\ FinalizerRecommendations # {}

\* C20: a failing chat notification never changes the outcome of an
\* incident: when the 'new incident' notification raised or returned
\* nothing, the workflow of the incident is still executed by the time the
\* handler ends.
C20_NotificationFailureHarmless ==
    (h_pc = "done" /\ h_log[1].outcome \in {"None", "raised"}) => wf_pc = "returned"

\* C21: the orchestrator only recommends: along every execution of every
\* registered workflow, for any event, none of the operations that change
\* the cluster (restart_pod, scale_deployment) is ever invoked.
C21_OnlyRecommends == invoked \cap MutatingOperations = {}

\* A memory-leak incident ended with the recommendation to restart the pod
\* after its steps had read pod events and recent changes from the cluster.
C21_Witness ==
    /\ Succeeded
    /\ h_pc = "done"
    /\ \E i \in 1..Len(context.recommendations.v) :
          context.recommendations.v[i] = Str("Restart pod to clear memory")
    /\ {"kubernetes.get_pod_events", "kubernetes.get_recent_changes"} \subseteq invoked

(***************************************************************************)
(* Properties of the query translator.                                     *)
(***************************************************************************)
\* The calls of translate completed so far that were given a text.
TextCalls == {i \in 1..Len(g_log) : g_log[i].asked.query.t = "str"}

\* The lowercased query of the i-th call.
QueryLower(i) == LowerStr(g_log[i].asked.query.v)

\* The templates whose pattern matches the lowercased query of the i-th call.
Matching(i) ==
    {k \in 1..Len(self_templates) : re_search(self_templates[k].pattern, QueryLower(i)).matched}

Returned(i, key) == Get(g_log[i].returned, key, None)

\* C22: translate scans the template table in its declared order and the
\* first template whose pattern matches the lowercased query determines the
\* result: when a query matches several templates, PromQL, description and
\* category are those of the earliest of them.
C22_FirstTemplateWins ==
    \A i \in TextCalls :
        Matching(i) # {} =>
            LET first == self_templates[Min(Matching(i))]
                match == re_search(first.pattern, QueryLower(i))
                params == _extract_parameters(match, first)
            IN  IF params.t = "raise" THEN ~Truthy(Returned(i, "success"))
                ELSE /\ Truthy(Returned(i, "success"))
                     /\ Returned(i, "template") = Str(first.description)
                     /\ Returned(i, "category") = Str(first.category)
                     /\ Returned(i, "promql") = format(first.promql, params)

\* A query that names a pod and a namespace after "memory usage" matched
\* the first and the third template and was rendered from the first.
C22_Witness ==
    \E i \in TextCalls :
        /\ {1, 3} \subseteq Matching(i)
        /\ Returned(i, "template") = Str("Memory usage for a specific pod")
        /\ Returned(i, "promql") = Str("container_memory_usage_bytes{pod=\"foo\"}")

\* The template a result was rendered from.
TemplatesOf(i) ==
    {k \in 1..Len(self_templates) : Str(self_templates[k].description) = Returned(i, "template")}

\* The calls that returned a result rendered from a template.
Rendered == {i \in TextCalls : Truthy(Returned(i, "success")) /\ TemplatesOf(i) # {}}

\* The value of the label of a rendered result: its parameters all carry
\* the captured text.
LabelValue(i) == Returned(i, "parameters").v[1][2]

\* The non-space token of s that follows position j, the start of an
\* occurrence of the entity keyword followed by whitespace and a token.
TokenAfter(s, j, entity) ==
    LET b == SpaceEnd(s, j + Len(entity)) IN SubSeq(s, b, TokenEnd(s, b) - 1)

\* The places of the query, whatever the case of its letters, at which the
\* entity keyword is followed by whitespace and a token.
KeywordPlaces(i, entity) ==
    {j \in 1..Len(QueryLower(i)) : EntityAt(QueryLower(i), j, entity)}

\* C23 as stated: the label value of the rendered PromQL is the first
\* non-space token after the entity keyword, as the query spells it.
C23_LabelIsTokenAfterKeyword ==
    \A i \in Rendered :
        \A k \in TemplatesOf(i) :
            LET entity == self_templates[k].pattern.entity IN
            LabelValue(i) =
                Str(TokenAfter(g_log[i].asked.query.v, Min(KeywordPlaces(i, entity)), entity))

\* C23, amended: the two queries of the specification give
\* container_memory_usage_bytes{pod="foo"} with time_range 1h and
\* rate(http_requests_total{service="bar"}[5m]) with time_range 1h; in
\* general, for a query of one line, the label value is the lowercased
\* non-space token after the last place behind the metric phrase at which
\* the entity keyword is followed by whitespace and a token.
C23_LabelIsLastLowercasedToken ==
    \A i \in Rendered :
        /\ g_log[i].asked.query.v = query_S4 =>
              /\ Returned(i, "promql") = Str("container_memory_usage_bytes{pod=\"foo\"}")
              /\ Returned(i, "time_range") = Str("1h")
        /\ g_log[i].asked.query.v = query_S5 =>
              /\ Returned(i, "promql") = Str("rate(http_requests_total{service=\"bar\"}[5m])")
              /\ Returned(i, "time_range") = Str("1h")
        /\ ~In("\n", QueryLower(i)) =>
              \A k \in TemplatesOf(i) :
                  LET pattern == self_templates[k].pattern
                      phrase_end == Min({m \in 1..Len(QueryLower(i)) :
                                            StartsAt(QueryLower(i), m, pattern.phrase)})
                                       + Len(pattern.phrase)
                      places == {j \in KeywordPlaces(i, pattern.entity) : j >= phrase_end}
                  IN  LabelValue(i) = Str(TokenAfter(QueryLower(i), Max(places), pattern.entity))

\* A query that names two pods, the second with capital letters, was
\* rendered with the lowercased name of the second.
C23_Witness ==
    \E i \in Rendered :
        /\ g_log[i].asked.query.v = "Show me memory usage for pod foo pod Foo-1"
        /\ Returned(i, "promql") = Str("container_memory_usage_bytes{pod=\"foo-1\"}")

\* The phrases of the time window and their values, as the claim lists them.
StatedTimePhrases ==
    << <<"last 5 minutes", "5m">>, <<"last 15 minutes", "15m">>, <<"last 30 minutes", "30m">>,
       <<"last hour", "1h">>, <<"last day", "1d">>, <<"last week", "7d">> >>

\* The stated phrases present in the lowercased query of the i-th call.
StatedPresent(i) ==
    {k \in 1..Len(StatedTimePhrases) : In(StatedTimePhrases[k][1], QueryLower(i))}

\* The calls whose result carries a time window.
Timed == {i \in TextCalls : HasKey(g_log[i].returned, "time_range")}

TimeRanges == {"5m", "15m", "30m", "1h", "1d", "7d"}

\* C24 as stated: a query with one of the six phrases gets the value of
\* that phrase, a query with none of them gets 1h, and the result is
\* always one of the six values.
C24_SixPhrases ==
    \A i \in Timed :
        /\ Returned(i, "time_range").v \in TimeRanges
        /\ \A k \in 1..Len(StatedTimePhrases) :
              StatedPresent(i) = {k} => Returned(i, "time_range") = Str(StatedTimePhrases[k][2])
        /\ StatedPresent(i) = {} => Returned(i, "time_range") = Str("1h")

\* The phrases the window is read from, in the order in which they are
\* looked for, and their values.
OrderedTimePhrases ==
    << <<{"last hour", "past hour"}, "1h">>, <<{"last 30 minutes"}, "30m">>,
       <<{"last 15 minutes"}, "15m">>, <<{"last 5 minutes"}, "5m">>,
       <<{"last day", "past day"}, "1d">>, <<{"last week"}, "7d">> >>

OrderedPresent(i) ==
    {k \in 1..Len(OrderedTimePhrases) :
        \E phrase \in OrderedTimePhrases[k][1] : In(phrase, QueryLower(i))}

\* C24, amended: "last hour" or "past hour" gives 1h, "last 30 minutes"
\* 30m, "last 15 minutes" 15m, "last 5 minutes" 5m, "last day" or "past
\* day" 1d, "last week" 7d; when several are present the first in this
\* order decides; without any of them the window is 1h; the result is
\* always one of the six values.
C24_PhrasesInOrder ==
    \A i \in Timed :
        /\ Returned(i, "time_range").v \in TimeRanges
        /\ Returned(i, "time_range") =
              Str(IF OrderedPresent(i) = {} THEN "1h"
                  ELSE OrderedTimePhrases[Min(OrderedPresent(i))][2])

\* A query with "past day" and none of the six stated phrases got 1d, and
\* so did a query with "last week" after "Last Day".
C24_Witness ==
    \E i \in Timed :
        /\ g_log[i].asked.query.v = "memory of pods past day or latest"
        /\ Returned(i, "time_range") = Str("1d")

\* The query of the i-th call matched no template and no keyword fallback.
Untranslatable(i) ==
    /\ Matching(i) = {}
    /\ _construct_from_keywords(g_log[i].asked.query.v) = None

\* The first template the query of the i-th call matched has no group.
MissingGroup(i) ==
    /\ Matching(i) # {}
    /\ self_templates[Min(Matching(i))].pattern.groups = 0

FailureValue(x) ==
    /\ x.t = "dict"
    /\ Get(x, "success", None) = Bool(FALSE)
    /\ Get(x, "error", None).t = "str"

\* C25: translate never raises: every call returns a dict with success; a
\* query that matches no template and no keyword fallback, and a template
\* match with a missing capture group, both return {success: False,
\* error}; the translator stays usable: its table is unchanged and the
\* next query is translated as on a new translator.
C25_TranslateNeverRaises ==
    /\ self_templates \in {_load_templates, configured_templates}
    /\ \A i \in 1..Len(g_log) :
          /\ g_log[i].returned.t = "dict"
          /\ Get(g_log[i].returned, "success", None).t = "bool"
          /\ g_log[i].asked.query.t # "str" => FailureValue(g_log[i].returned)
    /\ \A i \in TextCalls :
          /\ Untranslatable(i) => FailureValue(g_log[i].returned)
          /\ MissingGroup(i) => FailureValue(g_log[i].returned)
          /\ (i > 1 /\ g_log[i].asked.query.v = query_S4) =>
                /\ Returned(i, "success") = Bool(TRUE)
                /\ Returned(i, "promql") = Str("container_memory_usage_bytes{pod=\"foo\"}")

\* A match of the configured template without a group returned a failure,
\* and the next query was translated.
C25_Witness ==
    /\ Len(g_log) = 2
    /\ MissingGroup(1)
    /\ FailureValue(g_log[1].returned)
    /\ Returned(2, "success") = Bool(TRUE)

(***************************************************************************)
(* Properties of the Prometheus client, the insights and the query         *)
(* endpoint.                                                               *)
(***************************************************************************)
\* C26: every response of POST /api/v1/query with success = true carries a
\* promql_query that is a non-empty string and insights that are a
\* non-empty list, whatever the query text and the parsed metrics data.
C26_SuccessHasPromqlAndInsights ==
    (g_pc = "responded" /\ response.success.v)
        => /\ response.promql_query.t = "str"
           /\ response.promql_query.v # ""
           /\ response.insights.t = "list"
           /\ Len(response.insights.v) >= 1

C26_Witness ==
    /\ g_pc = "responded"
    /\ response.success.v
    /\ request.query.v = query_S4
    /\ Len(response.insights.v) >= 3

\* The durations the time ranges 1h, 30m, 1d and 7d name, in seconds.
NamedDurations == {<<"1h", 3600>>, <<"30m", 1800>>, <<"1d", 86400>>, <<"7d", 604800>>}

\* query_range has computed the start of its window, or failed to.
WindowDone == g_pc \in {"send", "queried"}

\* C27: the start of the queried window is exactly the end minus the
\* duration the time range names: for 1h, 30m, 1d and 7d,
\* _parse_time_range(time_range, end) is end - 3600 s, end - 1800 s,
\* end - 86400 s and end - 604800 s.
C27_StartIsEndMinusDuration ==
    \A named \in NamedDurations :
        (WindowDone /\ window.time_range = named[1])
            => /\ window.start_time.t = "int"
               /\ window.start_time.v = window.end_time.v - named[2]

C27_Witness ==
    /\ g_pc = "send"
    /\ window.time_range = "30m"
    /\ window.start_time.v = window.end_time.v - 1800

\* query_range has returned a parsed result.
Parsed == g_pc = "queried" /\ Truthy(Get(query_result, "success", None))

\* The parsed result and one of its fields.
ParsedData == Get(query_result, "data", None)
Field(name) == Get(ParsedData, name, None)

\* The series of the response, and all their samples in series order.
RawSeries == Get(query_result, "raw", None).v
Samples == Flatten(RawSeries)

\* x = y for two numbers
NumEq(x, y) == ~Less(x, y) /\ ~Less(y, x)

\* The mean of the samples from a to b.
Mean(values, a, b) == Divide(sum(SubSeq(values, a, b)), Num(b - a + 1))

\* The trend the rule of the claim gives for a list of samples.
RuleTrend(values) ==
    IF Len(values) < 2 THEN "unknown"
    ELSE LET first == Mean(values, 1, Len(values) \div 2)
             second == Mean(values, Len(values) \div 2 + 1, Len(values))
         IN  IF Less(Times(Float(11, 10), first), second) THEN "increasing"
             ELSE IF Less(second, Times(Float(9, 10), first)) THEN "decreasing"
             ELSE "stable"

\* A constant series of at least two samples.
Constant(values) ==
    Len(values) >= 2 /\ \A i \in 1..Len(values) : NumEq(values[i], values[1])

\* C28: the trend over a list of samples is unknown for fewer than 2
\* samples; otherwise, with first the mean of the first floor(n/2) samples
\* and second the mean of the rest, it is increasing when
\* second > 1.1 x first, decreasing when second < 0.9 x first, else stable;
\* in particular every constant series of length >= 2 gives stable, for
\* every value.
C28_TrendRuleAndConstantStable ==
    Parsed => /\ Field("trend").v = RuleTrend(Samples)
              /\ Constant(Samples) => Field("trend").v = "stable"

\* The part of C28 that the code satisfies: the trend follows the rule of the
\* two means.
C28_TrendFollowsRule == Parsed => Field("trend").v = RuleTrend(Samples)

\* The sample values of the response, and their number.
SamplePlaces == {<<k, i>> : k \in 1..Len(RawSeries), i \in 1..MaxSamples}
SampleSet ==
    {float(RawSeries[p[1]].values[p[2]][2]) :
         p \in {q \in SamplePlaces : q[2] <= Len(RawSeries[q[1]].values)}}

\* The series that carry samples.
Carrying == {k \in 1..Len(RawSeries) : Len(RawSeries[k].values) > 0}

\* The last sample of the last series that carries one.
LastSample ==
    LET series == RawSeries[Max(Carrying)] IN float(series.values[Len(series.values)][2])

\* The texts of the samples of the only series of the response.
OnlySeries(texts) ==
    /\ Len(RawSeries) = 1
    /\ [i \in 1..Len(RawSeries[1].values) |-> RawSeries[1].values[i][2]] = texts

\* C29: parsing a range result flattens the values of all series, in series
\* order, and reports current = the last element, the min, the max and the
\* average of that list: the single series [10, 10, 30, 30] gives current 30,
\* min 10, max 30, average 20 and trend increasing; a response without
\* series, or whose series carry no samples, gives current 0, min 0, max 0,
\* average 0 and trend unknown.
C29_ParsedStatistics ==
    Parsed =>
        /\ Carrying # {} =>
               /\ NumEq(Field("current_value"), LastSample)
               /\ NumEq(Field("current_value"), Samples[Len(Samples)])
               /\ \A v \in SampleSet : /\ ~Less(v, Field("min_value"))
                                       /\ ~Less(Field("max_value"), v)
               /\ \E v \in SampleSet : NumEq(v, Field("min_value"))
               /\ \E v \in SampleSet : NumEq(v, Field("max_value"))
               /\ NumEq(Times(Field("average_value"), Num(Len(Samples))), sum(Samples))
        /\ OnlySeries(<<"10", "10", "30", "30">>) =>
               /\ NumEq(Field("current_value"), Num(30))
               /\ NumEq(Field("min_value"), Num(10))
               /\ NumEq(Field("max_value"), Num(30))
               /\ NumEq(Field("average_value"), Num(20))
               /\ Field("trend").v = "increasing"
        /\ Carrying = {} =>
               /\ \A name \in {"current_value", "min_value", "max_value", "average_value"} :
                      Field(name) = Num(0)
               /\ Field("trend").v = "unknown"

C29_Witness ==
    /\ Parsed
    /\ OnlySeries(<<"10", "10", "30", "30">>)
    /\ NumEq(Field("current_value"), Num(30))
    /\ NumEq(Field("average_value"), Num(20))

\* generate has returned.
Generated == g_pc = "generated"

\* The insights as texts, and the entry that names the PromQL.
InsightTexts == [i \in 1..Len(insights.v) |-> insights.v[i].v]
PromqlEntry == "PromQL: '" \o Get(translation_result, "promql", None).v \o "'"

\* The place of an entry in the order of the claim: 1 current value,
\* 2 trend, 3 variability, 4 threshold, 5 anomaly count, 6 high cardinality,
\* 7 PromQL; 0 for any other entry.
EntryKind(text) ==
    CASE StartsAt(text, 1, "Current value: ") -> 1
      [] In("Metric is ", text) -> 2
      [] StartsAt(text, 1, "High variability detected: ") -> 3
      [] In("CRITICAL: ", text) \/ In("WARNING: ", text) \/ In("CAUTION: ", text) -> 4
      [] In(" anomalies detected", text) -> 5
      [] StartsAt(text, 1, "High cardinality: ") -> 6
      [] StartsAt(text, 1, "PromQL: ") -> 7
      [] OTHER -> 0

\* The entries follow the order of the claim, one of a kind but for the
\* threshold insights, and the PromQL entry is the last.
InOrder(texts) ==
    /\ Len(texts) >= 1
    /\ texts[Len(texts)] = PromqlEntry
    /\ \A i \in 1..Len(texts) : EntryKind(texts[i]) \in 1..7
    /\ \A i \in 1..(Len(texts) - 1) :
           \/ EntryKind(texts[i]) < EntryKind(texts[i + 1])
           \/ EntryKind(texts[i]) = 4 /\ EntryKind(texts[i + 1]) = 4

Comparable(data) ==
    /\ data.t = "dict"
    /\ \A name \in {"current_value", "max_value", "min_value", "series_count"} :
           Get(data, name, Num(0)).t \in {"int", "number"}
    /\ Get(data, "anomalies", List(<<>>)).t \in {"list", "dict", "str"}

ThresholdGroups ==
    {[keywords |-> {"memory"},
      tiers |-> {<<90, ":red_circle: CRITICAL: Memory usage > 90% - OOMKill risk">>,
                 <<80, ":orange_circle: WARNING: Memory usage > 80%">>,
                 <<70, ":yellow_circle: CAUTION: Memory usage > 70%">>}],
     [keywords |-> {"cpu"},
      tiers |-> {<<85, ":red_circle: CRITICAL: CPU usage > 85% - throttling likely">>,
                 <<70, ":orange_circle: WARNING: CPU usage > 70%">>}],
     [keywords |-> {"latency", "duration"},
      tiers |-> {<<3000, ":red_circle: CRITICAL: Latency > 3s - user experience severely impacted">>,
                 <<1000, ":orange_circle: WARNING: Latency > 1s - user experience degraded">>,
                 <<500, ":yellow_circle: CAUTION: Latency > 500ms">>}],
     [keywords |-> {"error"},
      tiers |-> {<<5, ":red_circle: CRITICAL: Error rate > 5%">>,
                 <<1, ":orange_circle: WARNING: Error rate > 1%">>}]}

\* The data generate was given, and its current value.
GivenData == Get(query_result, "data", None)
CurrentValue == Get(GivenData, "current_value", Num(0))

\* The group is named by the query.
Named(group) == \E kw \in group.keywords : In(kw, LowerStr(request.query.v))

\* The tiers of the group whose bound the current value strictly exceeds.
Exceeded(group) == {tier \in group.tiers : Less(Num(tier[1]), CurrentValue)}

\* The places of the insights that carry a text of the group.
GroupPlaces(group) ==
    {i \in 1..Len(InsightTexts) : \E tier \in group.tiers : InsightTexts[i] = tier[2]}

\* C31: once generate has returned for data it can compare, each keyword
\* group has at most one insight; it has none when the query does not name
\* the group or the current value exceeds no bound of it (a value equal to
\* a bound does not exceed it); otherwise it has exactly the text of the
\* tier with the greatest exceeded bound; so a query naming several groups
\* gets one insight per group.
C31_TieredStrictThresholds ==
    (Generated /\ Comparable(GivenData)) =>
        \A group \in ThresholdGroups :
            IF Named(group) /\ Exceeded(group) # {}
            THEN /\ Cardinality(GroupPlaces(group)) = 1
                 /\ \A i \in GroupPlaces(group) : \E tier \in Exceeded(group) :
                        /\ InsightTexts[i] = tier[2]
                        /\ \A other \in Exceeded(group) : other[1] <= tier[1]
            ELSE GroupPlaces(group) = {}

\* generate has returned for a query naming three groups and a current value
\* of 85, which equals the CPU critical bound: one insight per group, the
\* CPU one being the warning.
C31_Witness ==
    /\ Generated
    /\ Comparable(GivenData)
    /\ Cardinality({group \in ThresholdGroups : Named(group)}) = 3
    /\ ~Less(CurrentValue, Num(85)) /\ ~Less(Num(85), CurrentValue)
    /\ \E i \in 1..Len(InsightTexts) : InsightTexts[i] = ":orange_circle: WARNING: CPU usage > 70%"
    /\ \A group \in ThresholdGroups : Named(group) => Cardinality(GroupPlaces(group)) = 1

(* C33: the query pipeline short-circuits.                                 *)

\* The translator has returned a failure; the executor has been called, has
\* returned a failure; the generator has been called.
TranslationFailed ==
    translation_result # None /\ ~Truthy(Get(translation_result, "success", None))
ExecutorCalled == window # None \/ query_result # None
ExecutionFailed == query_result # None /\ ~Truthy(Get(query_result, "success", None))
GeneratorCalled == insights # None

\* The request went through the three components.
Complete ==
    /\ translation_result # None /\ ~TranslationFailed
    /\ query_result # None /\ ~ExecutionFailed
    /\ GeneratorCalled

\* The response reports a failure: an error text and nothing else.
FailureResponse ==
    /\ response.success = Bool(FALSE)
    /\ response.error.t = "str"
    /\ response.promql_query = None
    /\ response.data = None
    /\ response.insights = None

\* C33: the executor is called only after a successful translation and the
\* generator only after a successful execution; a request that did not go
\* through the three components (the translation failed, the execution
\* failed, or a component raised) is answered with success = false, an
\* error, and no promql_query, data or insights.
C33_ShortCircuits ==
    /\ TranslationFailed => ~ExecutorCalled /\ ~GeneratorCalled
    /\ ExecutorCalled => translation_result # None /\ ~TranslationFailed
    /\ ExecutionFailed => ~GeneratorCalled
    /\ GeneratorCalled => query_result # None /\ ~ExecutionFailed
    /\ (g_pc = "responded" /\ ~Complete) => FailureResponse

\* A translated query whose execution failed has been answered.
C33_Witness ==
    /\ g_pc = "responded"
    /\ ExecutorCalled
    /\ ExecutionFailed
    /\ ~GeneratorCalled
    /\ FailureResponse

(* C34: the ranks of the dequeued events over a run.                       *)

InHeapOrder(heap) == \A i \in 2..Len(heap) : heap[i \div 2].rank <= heap[i].rank

C40_ShutdownNotifiedOnce == shutdown_notifications <= 1

(* C32: one HTTP client session per adapter.                               *)

\* C32: the adapter constructs at most one session, on its first query,
\* and once main() has ended (DevOpsAgent.stop() has returned) the session
\* is not open.
C32_OneSessionClosedAtShutdown ==
    /\ sessions_created <= 1
    /\ (session = "None") = (sessions_created = 0)
    /\ main_pc = "exited" => session # "open"

(* C39: the adapter reports success only on the gateway's success.         *)

\* The adapter has returned from a query.
Received == g_pc = "received"

\* C39: the block PrometheusMCPClient.query returns has success = true
\* only when the gateway's response reported success = true: a response
\* with status 200 that reports a failure is returned as a block with
\* success = false.
C39_SuccessOnlyOnGatewaySuccess ==
    Received =>
        /\ Truthy(Get(mcp_answer.metrics, "success", None)) => response.success = Bool(TRUE)
        /\ (mcp_answer.status = 200 /\ response.success = Bool(FALSE)) =>
               mcp_answer.metrics = _get_fallback_metrics

\* The adapter received status 200 with a body that reports a failure and
\* returned a block with success = false.
C39_Witness ==
    /\ Received
    /\ mcp_answer.status = 200
    /\ Get(mcp_answer.body, "success", None) = Bool(FALSE)
    /\ Get(mcp_answer.body, "error", None).t = "str"
    /\ Get(mcp_answer.metrics, "success", None) = Bool(FALSE)

(* C36: an expected adapter failure does not fail the incident.            *)

\* The metrics steps and the key of context['metrics'] each of them sets.
MetricsSteps == {<<"collect_memory_metrics", "memory">>, <<"collect_cpu_metrics", "cpu">>}

\* The step received the fallback block from the adapter.
FallbackReceived(kind) == context.metrics[kind] = _get_fallback_metrics

\* C36: for an unreachable gateway and for a status other than 200 the
\* adapter returns the fallback block (success false, zeros, trend unknown)
\* and does not raise; the metrics step that received it has returned
\* normally, its result with success = True is among the findings; and when
\* no step raised, the workflow has run all its steps and returned success
\* = True.
C36_AdapterFailureDoesNotFailIncident ==
    /\ \A outcome \in McpOutcomes :
           outcome.status # 200 => mcp_query(outcome) = _get_fallback_metrics
    /\ ~Truthy(Get(_get_fallback_metrics, "success", None))
    /\ \A key \in {"current", "max", "min", "average"} :
           Get(_get_fallback_metrics, key, None) = Num(0)
    /\ Get(_get_fallback_metrics, "trend", None) = Str("unknown")
    /\ Executing =>
           \A ms \in MetricsSteps :
               FallbackReceived(ms[2]) =>
                   /\ \E i \in 1..Len(context.findings) :
                          /\ FindingSteps[i] = ms[1]
                          /\ Truthy(Get(FindingResult(i), "success", None))
                   /\ (wf_pc = "returned" /\ ~StepRaised) =>
                          /\ Succeeded
                          /\ FindingSteps = self_workflows[wf_name]

\* An incident whose memory query got the fallback block ran all the steps
\* of its workflow and returned success.
C36_Witness ==
    /\ Succeeded
    /\ h_pc = "execute_workflow"
    /\ FallbackReceived("memory")
    /\ FindingSteps = self_workflows[wf_name]
    /\ \E i \in 1..Len(context.findings) :
           /\ FindingSteps[i] = "collect_memory_metrics"
           /\ Get(FindingResult(i), "memory_usage", None) = Num(0)
           /\ Get(FindingResult(i), "trend", None) = Str("unknown")

(***************************************************************************)
(* C37.  Every workflow of the registry ends with its finalizer step       *)
(* (recommend_remediation for the five specific workflows,                 *)
(* recommend_actions for generic_investigation), the finalizer occurs      *)
(* exactly once in it, and every step id of every registered workflow is   *)
(* a key of the step handler table; no run of a registered workflow        *)
(* records a 'No handler for step' finding.                                *)
(***************************************************************************)
Finalizer(name) ==
    IF name = "generic_investigation" THEN "recommend_actions" ELSE "recommend_remediation"

NoHandlerFinding(i) ==
    Get(FindingResult(i), "error", None) = Str("No handler for step: " \o FindingSteps[i])

C37_RegistryEndsWithHandledFinalizer ==
    /\ DOMAIN workflows =
           {"memory_leak_investigation", "high_cpu_investigation",
            "high_latency_investigation", "node_pressure_investigation",
            "pod_crash_investigation", "generic_investigation"}
    /\ \A name \in DOMAIN workflows :
           LET steps == workflows[name] IN
           /\ Len(steps) > 0
           /\ steps[Len(steps)] = Finalizer(name)
           /\ Cardinality({i \in 1..Len(steps) : steps[i] = Finalizer(name)}) = 1
           /\ \A i \in 1..Len(steps) : steps[i] \in StepIds
    /\ self_workflows = workflows
    /\ Executing =>
           \A i \in 1..Len(context.findings) :
               /\ FindingSteps[i] = workflows[wf_name][i]
               /\ ~NoHandlerFinding(i)

\* A run of a registered workflow returned after its finalizer, the last of
\* its steps, recorded a finding that reports success.
C37_Witness ==
    /\ Executing
    /\ wf_pc = "returned"
    /\ FindingSteps = workflows[wf_name]
    /\ FindingSteps[Len(FindingSteps)] = Finalizer(wf_name)
    /\ Truthy(Get(FindingResult(Len(FindingSteps)), "success", None))
    /\ \A i \in 1..Len(context.findings) : ~NoHandlerFinding(i)

(***************************************************************************)
(* C38.  While no send_notification call of the handler raised, the calls  *)
(* follow a fixed protocol: one 'new incident' notification before         *)
(* execute_workflow is called, and, after it returned, one terminal        *)
(* notification, 'resolved' when the result has success = True and         *)
(* 'investigation failed' otherwise; every call carries the incident id    *)
(* INC- followed by the first eight characters of the event id, which is   *)
(* also the incident id of the workflow context.                           *)
(***************************************************************************)
NotifierRaised == \E i \in 1..Len(h_log) : h_log[i].outcome = "raised"

\* The incident id the specification gives each event id of EventIds.
ExpectedIncidentId ==
    [id \in EventIds |->
        CASE id = "7f3a9c" -> "INC-7f3a9c"
          [] id = "7f3a9c1e" -> "INC-7f3a9c1e"
          [] id = "7f3a9c1e-5b2d" -> "INC-7f3a9c1e"]

C38_NotificationProtocol ==
    (h_pc # "idle" /\ ~NotifierRaised) =>
        /\ Len(h_log) <= 2
        /\ \A i \in 1..Len(h_log) :
               h_log[i].incident_id = ExpectedIncidentId[h_event.event_id]
        /\ Len(h_log) >= 1 => h_log[1].message = "new"
        /\ wf_pc # "idle" => Len(h_log) >= 1
        /\ wf_pc \notin {"idle", "returned"} => Len(h_log) = 1
        /\ Executing => context.incident_id = ExpectedIncidentId[h_event.event_id]
        /\ Len(h_log) = 2 =>
               /\ wf_pc = "returned"
               /\ h_pc = "done"
               /\ h_log[2].message = IF Succeeded THEN "resolved" ELSE "failed"
        /\ h_pc = "done" => Len(h_log) = 2

\* The handler of an event whose id is longer than eight characters ended
\* after the 'new' and the 'resolved' notification, both sent.
C38_Witness ==
    /\ h_pc = "done"
    /\ Len(h_event.event_id) > 8
    /\ Len(h_log) = 2
    /\ h_log[1] = [message |-> "new", outcome |-> "ts", incident_id |-> "INC-7f3a9c1e"]
    /\ h_log[2] = [message |-> "resolved", outcome |-> "ts", incident_id |-> "INC-7f3a9c1e"]
    /\ Succeeded

\* The same with a workflow that failed: the terminal notification is the
\* 'investigation failed' one.
C38_FailedWitness ==
    /\ h_pc = "done"
    /\ ~NotifierRaised
    /\ Len(h_log) = 2
    /\ h_log[2].message = "failed"
    /\ ~Succeeded

(***************************************************************************)
(* IsolationSpec: up to max_concurrent_events handler tasks run            *)
(* execute_workflow at once, interleaved where they await the notifier or  *)
(* an adapter.  The context of                                             *)
(* a call is a dict object; objects is the heap of these dicts and a       *)
(* frame refers to its context by its place there, so that two calls       *)
(* writing to one object can be told from two calls with equal contexts.   *)
(***************************************************************************)
\* The payloads handled: a memory alarm and a latency alarm.
IsolationPayloads ==
    {[id |-> "7f3a9c1e-5b2d", detail |-> [alarmName |-> name_pod_oom_critical, state |-> "ALARM"]],
     [id |-> "b41d07aa-93c2", detail |-> [alarmName |-> name_svc_latency_high, state |-> "ALARM"]]}

\* What the adapters answer in this specification: every call of a step
\* gets the same answer, one of AdapterCall(step) that is not an exception.
SteadyAnswer(step) ==
    CASE step \in {"collect_memory_metrics", "collect_cpu_metrics"} ->
             mcp_query([status |-> 200,
                        body |-> MetricsBody("200.0", "450.0", "325.0", "increasing")])
      [] step \in {"check_oom_events", "collect_pod_events"} ->
             List(<<PodEvent(Str("OOMKilled"))>>)
      [] step = "collect_latency_metrics" ->
             Dict(<< <<"current", Num(120)>>, <<"p99", Num(900)>>, <<"p50", Num(120)>> >>)
      [] step = "collect_node_metrics" -> Dict(<<>>)
      [] step = "analyze_traces" -> List(<<SlowTrace(Str("dynamodb"))>>)
      [] step = "review_recent_changes" -> List(<<>>)
      [] step = "review_resource_limits" -> Dict(<<>>)
      [] step = "check_dependencies" -> Dict(<<>>)
      [] step = "list_pods_on_node" -> List(<<>>)
      [] step = "analyze_evictions" -> List(<<>>)
      [] step = "analyze_logs" -> List(<<>>)
      [] step = "check_restart_count" -> Num(0)
      [] OTHER -> None

\* Mutant: the engine keeps one context dict (self.context) that every call
\* fills anew.
new_context_shared(heap) == 1

\* `context = {...}` of execute_workflow: the dict display creates a new
\* object, which gets the next place of the heap.
new_context(heap) == Len(heap) + 1

\* The heap after value was bound at place ref.
Bind(heap, ref, value) ==
    IF ref > Len(heap) THEN Append(heap, value) ELSE [heap EXCEPT ![ref] = value]

\* _process_events creates the handler task of an event (tasks are created
\* one after the other); _handle_event determines the workflow and calls
\* execute_workflow.
handle_event_task(k) ==
    /\ task_frames[k].pc = "idle"
    /\ \A j \in 1..(k - 1) : task_frames[j].pc # "idle"
    /\ \E event_data \in IsolationPayloads :
           LET event == Event(event_data) IN
           task_frames' = [task_frames EXCEPT ![k] =
                              [NoFrame EXCEPT !.pc = "called",
                                              !.event = event,
                                              !.workflow_name = _determine_workflow(event.detail)]]
    /\ UNCHANGED <<objects, dispVars, selVars, wfVars, gwVars, agVars>>

TaskCreated == \E k \in Slots : handle_event_task(k)

\* The context after the finding of a step was appended to it.
WithFinding(r, step) ==
    IF r.raised THEN r.context
    ELSE [r.context EXCEPT !.findings =
             AppendFinding(@, Dict(<< <<"step", Str(step)>>,
                                      <<"result", r.result>>,
                                      <<"timestamp", Str(utcnow_isoformat)>> >>))]

\* The step a frame is in has ended: its handler has written to the
\* context object of the call, the finding is appended to it, and the loop
\* goes on or is left.
StepDone(frame, heap) ==
    LET steps == workflows[frame.workflow_name]
        step == steps[frame.step]
        r == _execute_step(step, heap[frame.context], SteadyAnswer(step))
        own == _execute_step(step, frame.alone, SteadyAnswer(step))
        next == after_step(r.raised, r.result, frame.step = Len(steps))
    IN  [frame |-> [frame EXCEPT !.pc = IF next = "except" THEN "returned" ELSE next,
                                 !.alone = WithFinding(own, step)],
         heap |-> [heap EXCEPT ![frame.context] = WithFinding(r, step)]]

\* A coroutine runs on without giving way to another task until it awaits
\* an adapter: the loop of a frame begins its next step, and a step whose
\* handler awaits nothing ends at once.
RECURSIVE RunToAwait(_, _)
RunToAwait(frame, heap) ==
    IF frame.pc # "loop" THEN [frame |-> frame, heap |-> heap]
    ELSE LET started == [frame EXCEPT !.pc = "in_step", !.step = @ + 1]
             step == workflows[frame.workflow_name][started.step]
             ended == StepDone(started, heap)
         IN  IF SteadyAnswer(step) # None THEN [frame |-> started, heap |-> heap]
             ELSE RunToAwait(ended.frame, ended.heap)

\* execute_workflow of task k: the context dict is created and the loop
\* runs up to the first step that awaits an adapter.
execute_workflow_call(k) ==
    LET frame == task_frames[k]
        ref == new_context(objects)
        fresh == [NoContext EXCEPT !.incident_id = incident_id_of(frame.event),
                                   !.workflow_name = frame.workflow_name]
        run == RunToAwait([frame EXCEPT !.pc = "loop", !.context = ref, !.alone = fresh],
                          Bind(objects, ref, fresh))
    IN  /\ frame.pc = "called"
        /\ frame.workflow_name \in DOMAIN workflows
        /\ objects' = run.heap
        /\ task_frames' = [task_frames EXCEPT ![k] = run.frame]
        /\ UNCHANGED <<dispVars, selVars, wfVars, gwVars, agVars>>

WorkflowCalled == \E k \in Slots : execute_workflow_call(k)

\* The adapter call awaited by the step of task k has answered: the step
\* ends and the loop runs up to the next step that awaits an adapter.
end_step(k) ==
    LET ended == StepDone(task_frames[k], objects)
        run == RunToAwait(ended.frame, ended.heap)
    IN  /\ task_frames[k].pc = "in_step"
        /\ objects' = run.heap
        /\ task_frames' = [task_frames EXCEPT ![k] = run.frame]
        /\ UNCHANGED <<dispVars, selVars, wfVars, gwVars, agVars>>

StepEnded == \E k \in Slots : end_step(k)

\* The context after the reasoner: root cause and recommendations.
Reasoned(ctx) ==
    LET root_cause == _determine_root_cause(ctx) IN
    [ctx EXCEPT !.root_cause = Str(root_cause),
                !.recommendations = Strs(_generate_recommendations(ctx, Str(root_cause)))]

\* After the loop of task k: the reasoner reads the context of the call,
\* and the call returns.
call_returns(k) ==
    LET frame == task_frames[k] IN
    /\ frame.pc = "reasoner"
    /\ objects' = [objects EXCEPT ![frame.context] = Reasoned(@)]
    /\ task_frames' = [task_frames EXCEPT ![k].pc = "returned",
                                          ![k].alone = Reasoned(@)]
    /\ UNCHANGED <<dispVars, selVars, wfVars, gwVars, agVars>>

CallReturned == \E k \in Slots : call_returns(k)

IsolationNext ==
    \/ TaskCreated
    \/ WorkflowCalled
    \/ StepEnded
    \/ CallReturned

IsolationSpec == Init /\ [][IsolationNext]_vars

(***************************************************************************)
(* C35.  Concurrently running incidents share no investigation state:      *)
(* every execute_workflow call has a context object of its own, and under  *)
(* any interleaving of up to max_concurrent_events calls that object holds *)
(* what the steps of its own call wrote and nothing else: the incident id  *)
(* and workflow of its event, one finding per step its call has ended, in  *)
(* the order of its workflow, and the scratch fields and metrics its own   *)
(* steps set.                                                              *)
(***************************************************************************)
Called == {k \in Slots : task_frames[k].context # 0}

ContextOf(k) == objects[task_frames[k].context]

StepsEnded(k) ==
    IF task_frames[k].pc = "in_step" THEN task_frames[k].step - 1 ELSE task_frames[k].step

C35_IncidentsShareNoContext ==
    /\ Called = {} => \A step \in StepIds : SteadyAnswer(step) \in AdapterCall(step)
    /\ \A k \in Called :
           LET frame == task_frames[k]
               ctx == ContextOf(k)
           IN  /\ \A j \in Called \ {k} : task_frames[j].context # frame.context
               /\ ctx = frame.alone
               /\ ctx.incident_id = incident_id_of(frame.event)
               /\ ctx.workflow_name = _determine_workflow(frame.event.detail)
               /\ Len(ctx.findings) = StepsEnded(k)
               /\ \A i \in 1..Len(ctx.findings) :
                      Get(ctx.findings[i], "step", None) =
                          Str(workflows[frame.workflow_name][i])
               /\ frame.workflow_name = "memory_leak_investigation" =>
                      ctx.service_name = None
               /\ frame.workflow_name = "high_latency_investigation" =>
                      /\ ctx.pod_name = None
                      /\ ctx.metrics.memory = Dict(<<>>)

\* Two calls of different workflows both await an adapter, each after two
\* steps of its own, the second task being ahead of or level with the first.
C35_Witness ==
    /\ {1, 2} \subseteq Called
    /\ task_frames[1].pc = "in_step"
    /\ task_frames[2].pc = "in_step"
    /\ task_frames[1].workflow_name # task_frames[2].workflow_name
    /\ Len(ContextOf(1).findings) >= 2
    /\ Len(ContextOf(2).findings) >= Len(ContextOf(1).findings)
    /\ ContextOf(1) # ContextOf(2)

====
